---- MODULE Spec2Model ----
(***************************************************************************)
(* PKCS#11-backed certificate issuance (certificates.js, src/unnamed/      *)
(* part_002) and CMS document signing (signature.js, src/unnamed/part_001) *)
(* as a state machine.                                                     *)
(*                                                                         *)
(* A JavaScript string is a sequence of atoms.  An atom is one character   *)
(* ("0", ";"), one percent escape ("%01"), a word of characters that       *)
(* encodeURIComponent leaves alone ("SmartCard-HSM"), or a literal piece   *)
(* of a template of the source ("pkcs11:", "slot-id=", "pin-value=").      *)
(* null, undefined and the empty string are the empty sequence: the source *)
(* only ever tests these values for truthiness.                            *)
(***************************************************************************)
EXTENDS Integers, Sequences, FiniteSets, TLC

VARIABLES
    env,        \* process.env, fixed for the life of the process
    ops,        \* per request slot: the handler's position and locals
    log,        \* per request slot: external tool invocations made so far
    disk,       \* files under UPLOADS_DIR: file name -> content
    certFile,   \* content of CERTS_JSON
    sigFile,    \* content of SIGS_JSON
    token,      \* certificate objects written to the hardware token
    nextId,     \* source of fresh ids (genId, Date.now()+Math.random names)
    workload    \* the slots that take requests, the requests clients send
                \* and the outcomes the external tools may show

vars == <<env, ops, log, disk, certFile, sigFile, token, nextId, workload>>

(***************************************************************************)
(* Bounds of the model.                                                    *)
(***************************************************************************)
NumSlots == 2       \* request slots; each takes one request in a behaviour

Slots == 1..NumSlots

(***************************************************************************)
(* Strings.                                                                *)
(***************************************************************************)
HexDigits == {"0", "1", "2", "3", "4", "5", "6", "7", "8", "9",
              "a", "b", "c", "d", "e", "f", "A", "B", "C", "D", "E", "F"}
Digits == {"0", "1", "2", "3", "4", "5", "6", "7", "8", "9"}

\* Characters encodeURIComponent escapes, of those the model's inputs use.
ReservedChars == {" ", "/", ";", "=", ":", "%"}

\* charCodeAt(0).toString(16).padStart(2,'0'), upper-cased.
CharCodeHex(c) ==
    CASE c = "0" -> "30" [] c = "1" -> "31" [] c = "2" -> "32"
      [] c = "3" -> "33" [] c = "4" -> "34" [] c = "5" -> "35"
      [] c = "a" -> "61" [] c = "b" -> "62" [] c = "k" -> "6B"
      [] c = " " -> "20" [] c = "/" -> "2F" [] c = ";" -> "3B"
      [] c = "=" -> "3D" [] c = ":" -> "3A" [] c = "%" -> "25"

ToUpperCase(c) ==
    CASE c = "a" -> "A" [] c = "b" -> "B" [] c = "c" -> "C"
      [] c = "d" -> "D" [] c = "e" -> "E" [] c = "f" -> "F"
      [] OTHER -> c

\* Mutant: the key id is taken untrimmed.
Trim_Identity(s) == s

\* String(x || '').trim(): the inputs of the model carry no outer blanks
\* except the one-blank string, which trims to the empty string.
Trim(s) == IF s = <<" ">> THEN <<>> ELSE s

RECURSIVE PercentPairs(_)
PercentPairs(s) ==
    IF Len(s) < 2 THEN <<>>
    ELSE <<"%" \o ToUpperCase(s[1]) \o ToUpperCase(s[2])>>
         \o PercentPairs(SubSeq(s, 3, Len(s)))

\* /^[0-9a-fA-F]{2,}$/.test(s) && s.length % 2 === 0
IsHexPairs(s) ==
    /\ Len(s) >= 2
    /\ \A i \in DOMAIN s : s[i] \in HexDigits
    /\ Len(s) % 2 = 0

encodeHexPercentIfValid(str) ==
    LET s == Trim(str) IN IF IsHexPairs(s) THEN PercentPairs(s) ELSE <<>>

encodeAsciiPercent(str) == [i \in DOMAIN str |-> "%" \o CharCodeHex(str[i])]

encodeURIComponent(str) ==
    [i \in DOMAIN str |->
        IF str[i] \in ReservedChars THEN "%" \o CharCodeHex(str[i]) ELSE str[i]]

\* [...].filter(Boolean)
FilterBoolean(list) == SelectSeq(list, LAMBDA x : x # <<>>)

\* Array.from(new Set(list)): first occurrences, in order.
RECURSIVE Dedup(_)
Dedup(list) ==
    IF list = <<>> THEN <<>>
    ELSE LET front == Dedup(SubSeq(list, 1, Len(list) - 1))
             last  == list[Len(list)]
         IN IF \E i \in DOMAIN front : front[i] = last
            THEN front ELSE Append(front, last)

RECURSIVE Flatten(_)
Flatten(lists) ==
    IF lists = <<>> THEN <<>> ELSE lists[1] \o Flatten(Tail(lists))

(***************************************************************************)
(* Key-addressing: the candidate key URIs of each backend.                 *)
(***************************************************************************)
\* currentModulePath(): the PKCS#11 module the deployment configured.
currentModulePath == <<"/", "opensc-pkcs11.so">>

getSlotId ==
    LET raw == env.PKCS11_SLOT_ID
        n   == Trim(raw)
    IN IF raw = <<>> THEN <<"0">>
       ELSE IF n # <<>> /\ \A i \in DOMAIN n : n[i] \in Digits THEN n
       ELSE <<"0">>

tokenLabelCandidates ==
    Dedup(FilterBoolean(<<env.PKCS11_TOKEN_LABEL, env.PKCS11_TOKEN,
                          <<"SmartCard-HSM">>, <<"SC-HSM">>>>))

\* certificates.js, provider mode: the URIs tried for one token label.
provUris(tokenLabel, keyId, userPin) ==
    LET slotId   == getSlotId
        mod      == encodeURIComponent(currentModulePath)
        pinv     == encodeURIComponent(userPin)
        encHex   == encodeHexPercentIfValid(keyId)
        encAscii == encodeAsciiPercent(keyId)
        tok      == encodeURIComponent(tokenLabel)
        obj      == encodeURIComponent(keyId)
        priv     == <<";", "type=private">>
        pinFrag  == <<";", "pin-value=">> \o pinv
        bySlot   == <<"pkcs11:", "slot-id=">> \o slotId
        byToken  == <<"pkcs11:", "token=">> \o tok
        byModule == <<"pkcs11:", "module-path=">> \o mod
        id(e)    == <<";", "id=">> \o e
        object   == <<";", "object=">> \o obj
        hex(u)   == IF encHex # <<>> THEN u ELSE <<>>
    IN FilterBoolean(<<
        hex(bySlot   \o id(encHex) \o priv \o pinFrag),
        hex(bySlot   \o id(encHex) \o priv),
        hex(byToken  \o id(encHex) \o priv \o pinFrag),
        hex(byToken  \o id(encHex) \o priv),
        hex(byModule \o id(encHex) \o priv \o pinFrag),
        hex(byModule \o id(encHex) \o priv),
        bySlot   \o id(encAscii) \o priv \o pinFrag,
        byToken  \o id(encAscii) \o priv \o pinFrag,
        byModule \o id(encAscii) \o priv \o pinFrag,
        bySlot   \o object \o priv \o pinFrag,
        byToken  \o object \o priv \o pinFrag,
        byModule \o object \o priv \o pinFrag >>)

\* certificates.js, engine mode: the URIs tried for one token label.
engineKeyUris(objectId, tokenLabel) ==
    LET idStr     == Trim(objectId)
        slotId    == getSlotId
        hexPerc   == encodeHexPercentIfValid(idStr)
        asciiPerc == encodeAsciiPercent(idStr)
        tokFrag   == IF tokenLabel # <<>>
                     THEN <<"token=">> \o encodeURIComponent(tokenLabel) \o <<";">>
                     ELSE <<>>
        slotFrag  == <<"slot-id=">> \o encodeURIComponent(slotId) \o <<";">>
        priv      == <<";", "type=private">>
        id(e)     == <<"id=">> \o e \o priv
        object    == <<"object=">> \o encodeURIComponent(idStr) \o priv
        tok(u)    == IF tokenLabel # <<>> THEN u ELSE <<>>
        hex(u)    == IF hexPerc # <<>> THEN u ELSE <<>>
        attr == FilterBoolean(<<
            hex(slotFrag \o id(hexPerc)),
            hex(tok(slotFrag \o tokFrag \o id(hexPerc))),
            hex(tok(tokFrag \o id(hexPerc))),
            slotFrag \o id(asciiPerc),
            tok(slotFrag \o tokFrag \o id(asciiPerc)),
            slotFrag \o object,
            tok(slotFrag \o tokFrag \o object) >>)
        out == Flatten([i \in DOMAIN attr |-> <<<<"pkcs11:">> \o attr[i], attr[i]>>])
    IN IF idStr = <<>> THEN <<>> ELSE Dedup(out)

\* signature.js: the URIs tried by the sign route, for either backend.
pkcs11KeyUris(objectId, pin) ==
    LET idStr     == Trim(objectId)
        pinFrag   == IF pin # <<>>
                     THEN <<";", "pin-value=">> \o encodeURIComponent(pin)
                     ELSE <<>>
        priv      == <<";", "type=private">>
        perc      == PercentPairs(idStr)
        asciiPerc == encodeAsciiPercent(idStr)
        out       == <<
            IF IsHexPairs(idStr)
            THEN <<"pkcs11:", "id=">> \o perc \o priv \o pinFrag ELSE <<>>,
            IF asciiPerc # <<>>
            THEN <<"pkcs11:", "id=">> \o asciiPerc \o priv \o pinFrag ELSE <<>>,
            <<"pkcs11:", "slot-id=", "0", ";", "object=">>
                \o encodeURIComponent(idStr) \o priv \o pinFrag >>
    IN IF idStr = <<>> THEN <<>> ELSE Dedup(FilterBoolean(out))

\* Whether a key URI carries a pin-value attribute.
HasPinValue(uri) == \E i \in DOMAIN uri : uri[i] = "pin-value="

(***************************************************************************)
(* Values of the JSON body that the handlers coerce.                       *)
(***************************************************************************)
JsUndefined == [t |-> "undefined", n |-> 0, s |-> <<>>]
JsNaN == [t |-> "NaN", n |-> 0, s |-> <<>>]
JsNumber(n) == [t |-> "number", n |-> n, s |-> <<>>]
JsString(s) == [t |-> "string", n |-> 0, s |-> s]

\* Truthiness, as the || operator tests it.
Truthy(v) ==
    CASE v.t = "number" -> v.n # 0
      [] v.t = "string" -> v.s # <<>>
      [] OTHER -> FALSE

DigitValue(c) ==
    CASE c = "0" -> 0 [] c = "1" -> 1 [] c = "2" -> 2 [] c = "3" -> 3
      [] c = "4" -> 4 [] c = "5" -> 5 [] c = "6" -> 6 [] c = "7" -> 7
      [] c = "8" -> 8 [] c = "9" -> 9

RECURSIVE ParseDigits(_)
ParseDigits(s) ==
    IF s = <<>> THEN 0
    ELSE 10 * ParseDigits(SubSeq(s, 1, Len(s) - 1)) + DigitValue(s[Len(s)])

\* Number(v) for the values above: a number is itself, a string of decimal
\* digits its value, with one leading '-' its negation, the empty string 0,
\* any other string and undefined NaN.
Number(v) ==
    CASE v.t = "number" -> v
      [] v.t = "string" ->
            LET neg  == v.s # <<>> /\ v.s[1] = "-"
                body == IF neg THEN Tail(v.s) ELSE v.s
            IN IF v.s = <<>> THEN JsNumber(0)
               ELSE IF body # <<>> /\ \A i \in DOMAIN body : body[i] \in Digits
               THEN JsNumber(IF neg THEN 0 - ParseDigits(body) ELSE ParseDigits(body))
               ELSE JsNaN
      [] OTHER -> JsNaN

\* const validityDays = Number(body.validityDays || 365)
DefaultValidityDays == 365
validityDays(body) ==
    Number(IF Truthy(body.validityDays) THEN body.validityDays
           ELSE JsNumber(DefaultValidityDays))

\* The values of body.validityDays that clients send.
ValidityInputs ==
    {JsUndefined, JsNumber(0), JsNumber(30), JsNumber(-5),
     JsString(<<"3", "0">>), JsString(<<"a", "b", "c">>)}

(***************************************************************************)
(* Requests, files, records.                                               *)
(***************************************************************************)
Pin1234 == <<"1", "2", "3", "4">>

\* A request as the HTTP layer hands it to a handler.  keyId is
\* String(body.key.id || body.keyId || body.id || '').trim(); pin is what
\* getUserPin(body.pin) returns; moduleOk is whether ensureModuleOr500 finds
\* the PKCS#11 module; hasFile is whether multer stored req.file;
\* suppliedPem is whether body.signerCertPem holds a certificate block;
\* certId and reason are the revoke route's :id and body.reason.
IssueRequests ==
    [kind : {"issue"}, keyId : {<<>>, <<" ">>, <<"0", "1">>, <<"k">>},
     pin : {<<>>, Pin1234}, moduleOk : BOOLEAN, hasFile : {FALSE},
     suppliedPem : {FALSE}, importToToken : BOOLEAN,
     certId : {0}, reason : {<<>>}, validityDays : ValidityInputs]

SignRequests ==
    [kind : {"sign"}, keyId : {<<>>, <<" ">>, <<"0", "1">>, <<"k">>},
     pin : {<<>>, Pin1234}, moduleOk : BOOLEAN, hasFile : BOOLEAN,
     suppliedPem : BOOLEAN, importToToken : {FALSE},
     certId : {0}, reason : {<<>>}, validityDays : {JsUndefined}]

RevokeRequests ==
    [kind : {"revoke"}, keyId : {<<>>}, pin : {<<>>}, moduleOk : {TRUE},
     hasFile : {FALSE}, suppliedPem : {FALSE}, importToToken : {FALSE},
     certId : 0..NumSlots, reason : {<<>>, <<"keyCompromise">>},
     validityDays : {JsUndefined}]

\* The verify route's request: uploads are the multipart fields that carry a
\* file (multer stored each before the handler runs), body the body fields
\* that are present and non-empty (contentText: present as a string).
VerifyUploadFields == {"cms", "signature", "content", "ca"}
VerifyBodyFields == {"cmsPem", "contentText", "caPem"}
VerifyRequests ==
    [kind : {"verify"}, keyId : {<<>>}, pin : {<<>>}, moduleOk : {TRUE},
     hasFile : {FALSE}, suppliedPem : {FALSE}, importToToken : {FALSE},
     certId : {0}, reason : {<<>>}, validityDays : {JsUndefined},
     uploads : SUBSET VerifyUploadFields, body : SUBSET VerifyBodyFields]

AllRequests == IssueRequests \cup SignRequests \cup RevokeRequests

\* The requests that leave validityDays out.
DefaultRequests == {r \in AllRequests : r.validityDays = JsUndefined}

\* The requests of the concurrent workload: well-formed ones.
ConcRequests ==
    {r \in AllRequests :
        /\ r.moduleOk
        /\ r.kind \in {"issue", "sign"} =>
              r.keyId = <<"k">> /\ r.pin = Pin1234 /\ ~r.importToToken
        /\ r.kind = "sign" => r.hasFile /\ r.suppliedPem
        /\ r.kind = "revoke" => r.reason # <<>>
        /\ r.validityDays = JsUndefined}

\* The requests of the serial workload: well-formed ones.
SeqRequests ==
    {r \in AllRequests :
        /\ r.moduleOk
        /\ r.kind \in {"issue", "sign"} =>
              r.keyId = <<"k">> /\ r.pin = Pin1234 /\ ~r.importToToken
        /\ r.kind = "sign" => r.hasFile /\ r.suppliedPem}

\* File names.  genId() and the Date.now()/Math.random() suffixes are unique
\* per request: a request's files are named by the request's number.
FileName(kind, id, key) == [kind |-> kind, id |-> id, key |-> key]
tmpCsr(id)     == FileName("csr", id, <<>>)
pemPath(id)    == FileName("cert.pem", id, <<>>)
derPath(id)    == FileName("cert.der", id, <<>>)
extFile(id)    == FileName("ext", id, <<>>)
signerPem(key) == FileName("signer", 0, key)
uploadPath(id) == FileName("upload", id, <<>>)
suppliedPemPath(id) == FileName("signer.tmp.pem", id, <<>>)
tokenDerPath(id)    == FileName("token.der", id, <<>>)
tokenPemPath(id)    == FileName("token.pem", id, <<>>)
outputPath(id)      == FileName("p7", id, <<>>)
multerPath(id, field) == FileName("upload", id, <<field>>)
bodyCmsPath(id)     == FileName("cms.pem", id, <<>>)
bodyContentPath(id) == FileName("content.bin", id, <<>>)
bodyCaPath(id)      == FileName("ca.pem", id, <<>>)

Exists(f) == f \in DOMAIN disk
WriteFile(d, f, content) ==
    [n \in DOMAIN d \cup {f} |-> IF n = f THEN content ELSE d[n]]
RECURSIVE Range(_)
Range(list) == IF list = <<>> THEN {} ELSE {list[1]} \cup Range(Tail(list))
\* for (const p of list) { try { await fs.unlink(p); } catch {} }
UnlinkAll(d, list) == [n \in DOMAIN d \ Range(list) |-> d[n]]

NoFile == FileName("none", 0, <<>>)
NoRequest == [kind |-> "none", keyId |-> <<>>, pin |-> <<>>, moduleOk |-> FALSE,
              hasFile |-> FALSE, suppliedPem |-> FALSE, importToToken |-> FALSE,
              certId |-> 0, reason |-> <<>>, validityDays |-> JsUndefined]
NoStore == [total |-> 0, records |-> <<>>]
NoRecord == [id |-> 0, keyId |-> <<>>, mode |-> "null", status |-> "none",
             serial |-> <<>>, revocationDate |-> 0, reason |-> <<>>]
NoResp == [status |-> 0, ok |-> FALSE, error |-> <<>>, mode |-> "null"]

Idle == [kind |-> "none", pc |-> "idle", rid |-> 0, req |-> NoRequest,
         cleanup |-> <<>>, usedMode |-> "null", lastErr |-> <<>>,
         li |-> 0, ui |-> 0, workingUri |-> <<>>, certPem |-> NoFile,
         store |-> NoStore, record |-> NoRecord, resp |-> NoResp,
         cmsPath |-> NoFile, contentPath |-> NoFile, caPath |-> NoFile,
         tempFiles |-> <<>>, verifyStderr |-> <<>>]

\* The self-sign invocation: `x509 -req ... -signkey <key> -days <days>`.
SelfSign(backend, key, passin, days, won) ==
    [cmd |-> "x509 -req", backend |-> backend, key |-> key, passin |-> passin,
     won |-> won, days |-> days]

\* One external tool invocation, as the handler saw it: won is the handler's
\* own test of the result (out.ok, and the output file where it checks one).
Invocation(cmd, backend, key, passin, won) ==
    [cmd |-> cmd, backend |-> backend, key |-> key, passin |-> passin,
     won |-> won]

(***************************************************************************)
(* Shared pieces of the handlers.                                          *)
(***************************************************************************)
\* What an external tool did: its exit status (out.ok) and whether it left
\* its output file behind.  A tool may succeed without writing the file and
\* may fail after creating it.
ToolOutcomes == [ok : BOOLEAN, wrote : BOOLEAN]

AfterTool(d, out, f, content) ==
    IF out.wrote
    THEN WriteFile(d, f, IF out.ok THEN content ELSE <<"partial", 0>>)
    ELSE d

Stderr == <<"<tool output>">>

\* genSerial(): crypto.randomBytes(8).toString('hex').toUpperCase(), a
\* value no certificate of the model carries.
genSerial == <<"<16 random hex digits>">>

\* What a tool that was handed a key URI leaves on stderr when it fails: a
\* text of its own, or one that names the URI it could not load (openssl:
\* "Could not read private key from <uri>").
\* The model draws the text of failing runs only: no handler reads the
\* stderr of a run that succeeded.
ToolStderr(echo, key) ==
    IF echo THEN <<"Could not read private key from ">> \o key ELSE Stderr

Respond(o, status, ok, error, mode) ==
    [o EXCEPT !.pc = "done",
              !.resp = [status |-> status, ok |-> ok, error |-> error,
                        mode |-> mode]]

\* Mutant: the failure is noted and the handler carries on to the append.
Throw_CarryOn(o, msg) == [o EXCEPT !.pc = "load", !.lastErr = msg]

\* throw new Error(msg) inside the handler's try block.
Throw(o, msg) == [o EXCEPT !.pc = "catch", !.lastErr = msg]

\* String(process.env.OPENSSL_USE_ENGINE || '0') === '1'
forceEngine == env.OPENSSL_USE_ENGINE = <<"1">>

\* loadJSON(file, fallback): the parsed file, or the fallback when the file
\* cannot be read or parsed.
loadJSON(file, fallback) ==
    IF file.state = "json"
    THEN [total |-> file.total, records |-> file.records]
    ELSE fallback
getCertStore == loadJSON(certFile, NoStore)
getSignStore == loadJSON(sigFile, NoStore)

\* Mutant: the loaded total is written back as it was.
persistStore_StaleTotal(store) ==
    [state |-> "json", total |-> store.total, records |-> store.records]

\* store.total = store.<collection>.length; saveJSON(file, store): the file
\* content after the write.
persistStore(store) ==
    [state |-> "json", total |-> Len(store.records), records |-> store.records]

\* ensurePkcs11Provider: the probe's answer for each thing the listing can
\* show.
ProviderProbeResults == {"both", "exec failed", "no pkcs11", "no default"}
ensurePkcs11Provider(shown) ==
    CASE shown = "exec failed" ->
            [ok |-> FALSE, error |-> <<"openssl list -providers failed">>]
      [] shown = "no pkcs11" ->
            [ok |-> FALSE, error |-> <<"pkcs11 provider missing">>]
      [] shown = "no default" ->
            [ok |-> FALSE, error |-> <<"default provider missing">>]
      [] OTHER -> [ok |-> TRUE, error |-> <<>>]

\* ensurePkcs11Engine: tryList has the plain probe and, with
\* OPENSSL_ENGINE_SO set, the dynamic-load probe; hit is the index of the
\* first probe that lists pkcs11, 0 when none does.
EngineTryList ==
    IF env.OPENSSL_ENGINE_SO # <<>>
    THEN <<"engine -t pkcs11", "engine -t dynamic">>
    ELSE <<"engine -t pkcs11">>
EngineProbeLog(hit) ==
    LET n == IF hit = 0 THEN Len(EngineTryList) ELSE hit
    IN [i \in 1..n |->
          Invocation(EngineTryList[i], "engine", <<>>, <<>>, i = hit)]
EngineMissing == <<"pkcs11 engine not available">>

(***************************************************************************)
(* Requests arrive.                                                        *)
(***************************************************************************)
\* A client sends a request (in the serial workload, once the request before
\* it has ended); for the sign route multer's
\* upload.single('document') has stored the document before the handler
\* runs.
Arrive(p) ==
    /\ p \in workload.slots
    /\ ops[p].pc = "idle"
    /\ workload.serial =>
          /\ \A q \in Slots : ops[q].pc \in {"idle", "done", "crashed"}
          /\ \A q \in 1..(p - 1) : ops[q].pc # "idle"
    /\ \E r \in workload.requests :
        /\ ops' = [ops EXCEPT ![p] =
                     [Idle EXCEPT !.kind = r.kind, !.pc = "start",
                                  !.rid = nextId, !.req = r]]
        /\ disk' = IF r.kind = "sign" /\ r.hasFile
                   THEN WriteFile(disk, uploadPath(nextId), <<"upload", nextId>>)
                   ELSE IF r.kind = "verify"
                   THEN [n \in DOMAIN disk
                              \cup {multerPath(nextId, f) : f \in r.uploads} |->
                           IF n \in DOMAIN disk THEN disk[n]
                           ELSE <<"upload", nextId>>]
                   ELSE disk
    /\ log' = [log EXCEPT ![p] = <<>>]
    /\ nextId' = nextId + 1
    /\ UNCHANGED <<env, certFile, sigFile, token, workload>>

(***************************************************************************)
(* generateHandler: POST /api/pki/certificates[/generate].                 *)
(***************************************************************************)
IssueAt(p, pc) == ops[p].kind = "issue" /\ ops[p].pc = pc

\* Validation, file names, the extension file.
IssueBegin(p) ==
    /\ IssueAt(p, "start")
    /\ LET o  == ops[p]
           id == o.rid
           keyId == Trim(o.req.keyId)
       IN IF ~o.req.moduleOk
          THEN /\ ops' = [ops EXCEPT ![p] =
                            Respond(o, 500, FALSE, <<"PKCS#11 module not found">>, "null")]
               /\ disk' = disk
          ELSE IF keyId = <<>>
          THEN /\ ops' = [ops EXCEPT ![p] =
                            Respond(o, 400, FALSE, <<"key.id is required">>, "null")]
               /\ disk' = disk
          ELSE IF o.req.pin = <<>>
          THEN /\ ops' = [ops EXCEPT ![p] =
                            Respond(o, 400, FALSE, <<"USER PIN missing">>, "null")]
               /\ disk' = disk
          ELSE /\ ops' = [ops EXCEPT ![p] =
                            [o EXCEPT !.pc = "negotiate",
                                      !.cleanup = <<tmpCsr(id), pemPath(id),
                                                    derPath(id), extFile(id)>>]]
               /\ disk' = WriteFile(disk, extFile(id), <<"ext", id>>)
    /\ UNCHANGED <<env, log, certFile, sigFile, token, nextId, workload>>

\* if (!forceEngine) { prov = await ensurePkcs11Provider(...) ... }
IssueProviderProbe(p) ==
    /\ IssueAt(p, "negotiate")
    /\ ~forceEngine
    /\ \E shown \in ProviderProbeResults :
        LET o    == ops[p]
            prov == ensurePkcs11Provider(shown)
        IN /\ log' = [log EXCEPT ![p] =
                        Append(@, Invocation("list -providers", "provider",
                                             <<>>, <<>>, prov.ok))]
           /\ ops' = [ops EXCEPT ![p] =
                        IF ~prov.ok
                        THEN [o EXCEPT !.pc = "engine",
                                       !.lastErr = <<"Provider preflight failed: ">>
                                                   \o prov.error]
                        ELSE [o EXCEPT !.pc = "provCsr", !.usedMode = "provider",
                                       !.li = 1, !.ui = 1]]
    /\ UNCHANGED <<env, disk, certFile, sigFile, token, nextId, workload>>

\* The handler's test of one CSR attempt.
CsrProduced(out, d, id) == out.ok /\ tmpCsr(id) \in DOMAIN d

\* Mutant: the loop gives up after the first failed candidate.
NextCandidate_GiveUp(li, ui, nUris, nLabels) == <<0, 0>>

\* Mutant: the loop steps over every other URI of a label.
NextCandidate_Skip(li, ui, nUris, nLabels) ==
    IF ui + 1 < nUris THEN <<li, ui + 2>>
    ELSE IF li < nLabels THEN <<li + 1, 1>>
    ELSE <<0, 0>>

\* The position after a failed candidate: the next URI of the label, the
\* first URI of the next label, or <<0, 0>> when the lists are exhausted.
NextCandidate(li, ui, nUris, nLabels) ==
    IF ui < nUris THEN <<li, ui + 1>>
    ELSE IF li < nLabels THEN <<li + 1, 1>>
    ELSE <<0, 0>>

\* One pass of the provider loops: one `openssl req -new` with one URI.
IssueProviderCsr(p) ==
    /\ IssueAt(p, "provCsr")
    /\ LET o      == ops[p]
           id     == o.rid
           labels == tokenLabelCandidates
           uris   == provUris(labels[o.li], Trim(o.req.keyId), o.req.pin)
           tryUri == uris[o.ui]
       IN \E out \in workload.keyTool, echo \in workload.echo :
        (out.ok => ~echo) /\
        LET d      == AfterTool(disk, out, tmpCsr(id), <<"csr", id>>)
            won    == CsrProduced(out, d, id)
            nxt    == NextCandidate(o.li, o.ui, Len(uris), Len(labels))
        IN /\ disk' = d
           /\ log' = [log EXCEPT ![p] =
                        Append(@, Invocation("req", "provider", tryUri, <<>>, won))]
           /\ ops' = [ops EXCEPT ![p] =
                        IF won
                        THEN [o EXCEPT !.pc = "provX509", !.workingUri = tryUri]
                        ELSE IF nxt # <<0, 0>>
                        THEN [o EXCEPT !.li = nxt[1], !.ui = nxt[2]]
                        ELSE [o EXCEPT !.pc = "engine", !.usedMode = "null",
                                       !.lastErr = <<"Provider CSR failed. ">>
                                                   \o ToolStderr(echo, tryUri)]]
    /\ UNCHANGED <<env, certFile, sigFile, token, nextId, workload>>

\* openssl x509 -req -signkey workingUri (provider)
IssueProviderX509(p) ==
    /\ IssueAt(p, "provX509")
    /\ \E out \in workload.tool, echo \in workload.echo :
        (out.ok => ~echo) /\
        LET o   == ops[p]
            id  == o.rid
            d   == AfterTool(disk, out, pemPath(id), <<"cert", id>>)
            won == out.ok /\ pemPath(id) \in DOMAIN d
        IN /\ disk' = d
           /\ log' = [log EXCEPT ![p] =
                        Append(@, SelfSign("provider", o.workingUri, <<>>,
                                           validityDays(o.req), won))]
           /\ ops' = [ops EXCEPT ![p] =
                        IF won THEN [o EXCEPT !.pc = "provDer"]
                        ELSE Throw(o, <<"Provider x509 self-sign failed: ">>
                                      \o ToolStderr(echo, o.workingUri))]
    /\ UNCHANGED <<env, certFile, sigFile, token, nextId, workload>>

\* openssl x509 -outform DER (provider environment)
IssueProviderDer(p) ==
    /\ IssueAt(p, "provDer")
    /\ \E out \in workload.tool :
        LET o   == ops[p]
            id  == o.rid
            d   == AfterTool(disk, out, derPath(id), <<"cert", id>>)
            won == out.ok /\ derPath(id) \in DOMAIN d
        IN /\ disk' = d
           /\ log' = [log EXCEPT ![p] =
                        Append(@, Invocation("x509 -outform DER", "provider",
                                             <<>>, <<>>, won))]
           /\ ops' = [ops EXCEPT ![p] =
                        IF won THEN [o EXCEPT !.pc = "signerPem"]
                        ELSE Throw(o, <<"openssl x509 DER failed: ">> \o Stderr)]
    /\ UNCHANGED <<env, certFile, sigFile, token, nextId, workload>>

\* if (!usedMode) { eng = await ensurePkcs11Engine(...) ... }
IssueEngineProbe(p) ==
    /\ \/ IssueAt(p, "engine")
       \/ IssueAt(p, "negotiate") /\ forceEngine
    /\ \E hit \in 0..Len(EngineTryList) :
        LET o == ops[p]
        IN /\ log' = [log EXCEPT ![p] = @ \o EngineProbeLog(hit)]
           /\ ops' = [ops EXCEPT ![p] =
                        IF hit = 0
                        THEN Throw(o, <<"OpenSSL engine mode failed. ">>
                                      \o EngineMissing \o <<". Provider error: ">>
                                      \o (IF o.lastErr # <<>> THEN o.lastErr
                                          ELSE <<"n/a">>))
                        ELSE [o EXCEPT !.pc = "engCsr", !.usedMode = "engine",
                                       !.li = 1, !.ui = 1]]
    /\ UNCHANGED <<env, disk, certFile, sigFile, token, nextId, workload>>

\* Mutant: the PIN is appended to the engine URI instead of passed apart.
EngineCsrArgs_PinInUri(tryUri, userPin) ==
    [key |-> tryUri \o <<";", "pin-value=">> \o encodeURIComponent(userPin),
     passin |-> <<>>]

\* The arguments of one engine-mode `openssl req -new`: the key URI and the
\* -passin credential.
EngineCsrArgs(tryUri, userPin) ==
    [key |-> tryUri, passin |-> <<"pass:">> \o userPin]

\* One pass of the engine loops.
IssueEngineCsr(p) ==
    /\ IssueAt(p, "engCsr")
    /\ LET o      == ops[p]
           id     == o.rid
           labels == tokenLabelCandidates
           uris   == engineKeyUris(Trim(o.req.keyId), labels[o.li])
           args   == EngineCsrArgs(uris[o.ui], o.req.pin)
       IN \E out \in workload.keyTool, echo \in workload.echo :
        (out.ok => ~echo) /\
        LET d      == AfterTool(disk, out, tmpCsr(id), <<"csr", id>>)
            won    == CsrProduced(out, d, id)
            nxt    == NextCandidate(o.li, o.ui, Len(uris), Len(labels))
        IN /\ disk' = d
           /\ log' = [log EXCEPT ![p] =
                        Append(@, Invocation("req", "engine", args.key,
                                             args.passin, won))]
           /\ ops' = [ops EXCEPT ![p] =
                        IF won
                        THEN [o EXCEPT !.pc = "engX509", !.workingUri = uris[o.ui]]
                        ELSE IF nxt # <<0, 0>>
                        THEN [o EXCEPT !.li = nxt[1], !.ui = nxt[2]]
                        ELSE Throw(o, <<"Engine CSR failed: ">> \o ToolStderr(echo, args.key))]
    /\ UNCHANGED <<env, certFile, sigFile, token, nextId, workload>>

\* openssl x509 -req -engine pkcs11 -passin pass:PIN -signkey engineKeyUri
IssueEngineX509(p) ==
    /\ IssueAt(p, "engX509")
    /\ \E out \in workload.tool, echo \in workload.echo :
        (out.ok => ~echo) /\
        LET o   == ops[p]
            id  == o.rid
            d   == AfterTool(disk, out, pemPath(id), <<"cert", id>>)
            won == out.ok /\ pemPath(id) \in DOMAIN d
        IN /\ disk' = d
           /\ log' = [log EXCEPT ![p] =
                        Append(@, SelfSign("engine", o.workingUri,
                                           <<"pass:">> \o o.req.pin,
                                           validityDays(o.req), won))]
           /\ ops' = [ops EXCEPT ![p] =
                        IF won THEN [o EXCEPT !.pc = "engDer"]
                        ELSE Throw(o, <<"Engine x509 self-sign failed: ">>
                                      \o ToolStderr(echo, o.workingUri))]
    /\ UNCHANGED <<env, certFile, sigFile, token, nextId, workload>>

\* openssl x509 -outform DER (engine branch: plain openssl)
IssueEngineDer(p) ==
    /\ IssueAt(p, "engDer")
    /\ \E out \in workload.tool :
        LET o   == ops[p]
            id  == o.rid
            d   == AfterTool(disk, out, derPath(id), <<"cert", id>>)
            won == out.ok /\ derPath(id) \in DOMAIN d
        IN /\ disk' = d
           /\ log' = [log EXCEPT ![p] =
                        Append(@, Invocation("x509 -outform DER", "none",
                                             <<>>, <<>>, won))]
           /\ ops' = [ops EXCEPT ![p] =
                        IF won THEN [o EXCEPT !.pc = "signerPem"]
                        ELSE Throw(o, <<"openssl x509 DER failed: ">> \o Stderr)]
    /\ UNCHANGED <<env, certFile, sigFile, token, nextId, workload>>

\* Persist stable signer PEM: copy pemPath to SIGNER_DIR/<keyId>.pem; a
\* failure is only warned about.
IssuePersistSignerPem(p) ==
    /\ IssueAt(p, "signerPem")
    /\ LET o  == ops[p]
           id == o.rid
       IN /\ disk' = IF Exists(pemPath(id))
                     THEN WriteFile(disk, signerPem(Trim(o.req.keyId)),
                                    disk[pemPath(id)])
                     ELSE disk
          /\ ops' = [ops EXCEPT ![p] =
                       [o EXCEPT !.pc = IF o.req.importToToken
                                        THEN "import" ELSE "meta"]]
    /\ UNCHANGED <<env, log, certFile, sigFile, token, nextId, workload>>

\* pkcs11-tool --login --pin PIN --write-object derPath --type cert; a
\* failure is only warned about.
IssueImportToToken(p) ==
    /\ IssueAt(p, "import")
    /\ \E ok \in BOOLEAN :
        LET o     == ops[p]
            keyId == Trim(o.req.keyId)
        IN /\ log' = [log EXCEPT ![p] =
                        Append(@, Invocation("pkcs11-tool --write-object", "none",
                                             <<>>, <<"--pin">> \o o.req.pin, ok))]
           /\ token' = IF ok
                       THEN token \cup {[cert |-> o.rid,
                                         label |-> <<"Cert-">> \o keyId,
                                         id |-> IF IsHexPairs(keyId)
                                                THEN keyId ELSE <<>>]}
                       ELSE token
           /\ ops' = [ops EXCEPT ![p] = [o EXCEPT !.pc = "meta"]]
    /\ UNCHANGED <<env, disk, certFile, sigFile, nextId, workload>>

\* Mutant: the record always declares the provider.
certRecord_AlwaysProvider(o, serial) ==
    [id |-> o.rid, keyId |-> Trim(o.req.keyId), mode |-> "provider",
     status |-> "valid", serial |-> serial, revocationDate |-> 0,
     reason |-> <<>>]

\* The CertificateRecord built from the request and the parsed metadata.
certRecord(o, serial) ==
    [id |-> o.rid, keyId |-> Trim(o.req.keyId), mode |-> o.usedMode,
     status |-> "valid", serial |-> serial, revocationDate |-> 0,
     reason |-> <<>>]

\* The serial number of the certificate the self-sign produced.
CertSerial == <<"0", "A">>

\* What `openssl x509 -noout -serial -startdate ...` answers: its exit
\* status and the text it prints, the serial line in upper case, in lower
\* case, with colons between the bytes, or not at all.
MetaFormats == {"plain", "lower", "colons", "absent"}
MetaText(fmt) ==
    CASE fmt = "plain"  -> <<"serial=", "0", "A", "\n", "notBefore=">>
      [] fmt = "lower"  -> <<"serial=", "0", "a", "\n", "notBefore=">>
      [] fmt = "colons" -> <<"serial=", "0", ":", "A", "\n", "notBefore=">>
      [] OTHER          -> <<"notBefore=">>
MetaOutcomes == [ok : BOOLEAN, fmt : MetaFormats]

\* txt.match(/serial=([0-9A-F:]+)/i)?.[1] || '': the run of hex digits and
\* colons that follows the first "serial=".
RECURSIVE SerialRun(_)
SerialRun(txt) ==
    IF txt = <<>> \/ txt[1] \notin HexDigits \cup {":"} THEN <<>>
    ELSE <<txt[1]>> \o SerialRun(Tail(txt))

\* readCertMeta's serial: serialRaw.replace(/:/g, '').toUpperCase(), the
\* empty string standing for `serial || null`.
readCertMetaSerial(txt) ==
    LET hits == {i \in DOMAIN txt : txt[i] = "serial="}
        first == CHOOSE i \in hits : \A j \in hits : i <= j
        serialRaw == IF hits = {} THEN <<>>
                     ELSE SerialRun(SubSeq(txt, first + 1, Len(txt)))
        bare == SelectSeq(serialRaw, LAMBDA c : c # ":")
    IN [i \in DOMAIN bare |-> ToUpperCase(bare[i])]

\* Mutant: the record always takes a fresh random serial.
recordSerial_AlwaysRandom(metaSerial) == genSerial

\* serial: meta.serial || genSerial()
recordSerial(metaSerial) ==
    IF metaSerial # <<>> THEN metaSerial ELSE genSerial

\* readCertMeta, then the record: the metadata read fails (throws), yields a
\* serial, or yields none.  The log entry notes the serial the certificate
\* has when the tool printed it.
IssueReadMeta(p) ==
    /\ IssueAt(p, "meta")
    /\ \E meta \in workload.meta :
        LET o == ops[p]
            entry == Invocation("x509 -noout -serial",
                                IF o.usedMode = "provider" THEN "provider"
                                ELSE "none", <<>>, <<>>, meta.ok)
            printed == IF meta.ok /\ meta.fmt # "absent" THEN CertSerial
                       ELSE <<>>
        IN /\ log' = [log EXCEPT ![p] =
                        Append(@, [cmd |-> entry.cmd, backend |-> entry.backend,
                                   key |-> entry.key, passin |-> entry.passin,
                                   won |-> entry.won, printed |-> printed])]
           /\ ops' = [ops EXCEPT ![p] =
                        IF ~meta.ok
                        THEN Throw(o, <<"openssl x509 meta failed: ">> \o Stderr)
                        ELSE [o EXCEPT !.pc = "load",
                                !.record = certRecord(o,
                                    recordSerial(readCertMetaSerial(
                                        MetaText(meta.fmt))))]]
    /\ UNCHANGED <<env, disk, certFile, sigFile, token, nextId, workload>>

\* store = await getCertStore(CERTS_JSON); store.certificates.unshift(rec)
IssueLoadStore(p) ==
    /\ IssueAt(p, "load")
    /\ LET o     == ops[p]
           store == getCertStore
       IN ops' = [ops EXCEPT ![p] =
                    [o EXCEPT !.pc = "persist",
                              !.store = [store EXCEPT
                                  !.records = <<o.record>> \o @]]]
    /\ UNCHANGED <<env, log, disk, certFile, sigFile, token, nextId, workload>>

\* await persistCertStore(CERTS_JSON, store); audit; res.json({ok:true,...})
IssuePersist(p) ==
    /\ IssueAt(p, "persist")
    /\ LET o == ops[p]
       IN /\ certFile' = persistStore(o.store)
          /\ ops' = [ops EXCEPT ![p] = Respond(o, 200, TRUE, <<>>, o.usedMode)]
    /\ UNCHANGED <<env, log, disk, sigFile, token, nextId, workload>>

\* catch (e): unlink everything in cleanup, answer 500 with the message.
IssueCatch(p) ==
    /\ IssueAt(p, "catch")
    /\ LET o == ops[p]
       IN /\ disk' = UnlinkAll(disk, o.cleanup)
          /\ ops' = [ops EXCEPT ![p] = Respond(o, 500, FALSE, o.lastErr, "null")]
    /\ UNCHANGED <<env, log, certFile, sigFile, token, nextId, workload>>

(***************************************************************************)
(* POST /api/pki/certificates/:id/revoke.                                  *)
(***************************************************************************)
\* Mutant: the first record is taken whatever the id.
findIndex_First(records, id) == IF records = <<>> THEN 0 ELSE 1

\* store.certificates.findIndex(c => c.id === id); 0 stands for -1.
findIndex(records, id) ==
    IF \E i \in DOMAIN records : records[i].id = id
    THEN CHOOSE i \in DOMAIN records :
            /\ records[i].id = id
            /\ \A j \in 1..(i - 1) : records[j].id # id
    ELSE 0

\* Mutant: revoking a revoked certificate makes it valid again.
markRevoked_Toggle(cert, reason, now) ==
    IF cert.status = "revoked"
    THEN [cert EXCEPT !.status = "valid", !.revocationDate = 0, !.reason = <<>>]
    ELSE [cert EXCEPT !.status = "revoked", !.revocationDate = now,
                      !.reason = reason]

\* cert.status = 'revoked'; cert.revocationDate = new Date().toISOString();
\* cert.revocationReason = reason
markRevoked(cert, reason, now) ==
    [cert EXCEPT !.status = "revoked", !.revocationDate = now,
                 !.reason = reason]

\* Load the store, find the certificate, mark it revoked in the loaded copy.
\* new Date().toISOString() is the time of the request: its number.
RevokeLoad(p) ==
    /\ ops[p].kind = "revoke" /\ ops[p].pc = "start"
    /\ LET o      == ops[p]
           reason == IF o.req.reason # <<>> THEN o.req.reason
                     ELSE <<"unspecified">>
           store  == getCertStore
           idx    == findIndex(store.records, o.req.certId)
       IN ops' = [ops EXCEPT ![p] =
                    IF idx = 0
                    THEN Respond(o, 404, FALSE, <<"Certificate not found">>, "null")
                    ELSE [o EXCEPT !.pc = "persist",
                            !.store = [store EXCEPT !.records[idx] =
                                markRevoked(@, reason, o.rid)]]]
    /\ UNCHANGED <<env, log, disk, certFile, sigFile, token, nextId, workload>>

\* await persistCertStore(CERTS_JSON, store); audit; res.json({ok:true,...})
RevokePersist(p) ==
    /\ ops[p].kind = "revoke" /\ ops[p].pc = "persist"
    /\ LET o == ops[p]
       IN /\ certFile' = persistStore(o.store)
          /\ ops' = [ops EXCEPT ![p] = Respond(o, 200, TRUE, <<>>, "null")]
    /\ UNCHANGED <<env, log, disk, sigFile, token, nextId, workload>>

(***************************************************************************)
(* POST /api/pki/documents/sign.                                           *)
(***************************************************************************)
SignAt(p, pc) == ops[p].kind = "sign" /\ ops[p].pc = pc

\* finally { unlink req.file.path; unlink every path in cleanup }
Finally(d, o) ==
    UnlinkAll(d, (IF o.req.hasFile THEN <<uploadPath(o.rid)>> ELSE <<>>)
                 \o o.cleanup)

\* Mutant: the sign route ignores OPENSSL_USE_ENGINE.
providerWanted_Always == TRUE

\* String(process.env.OPENSSL_USE_ENGINE || '0') !== '1'
providerWanted == env.OPENSSL_USE_ENGINE # <<"1">>

\* Validation, then ensureSignerCertPem up to its first tool invocation: a
\* supplied PEM is written to a temp file and used directly.
SignBegin(p) ==
    /\ SignAt(p, "start")
    /\ LET o     == ops[p]
           id    == o.rid
           keyId == Trim(o.req.keyId)
           reject(status, msg) ==
               /\ ops' = [ops EXCEPT ![p] = Respond(o, status, FALSE, msg, "null")]
               /\ disk' = Finally(disk, o)
       IN IF ~o.req.hasFile THEN reject(400, <<"No document uploaded">>)
          ELSE IF ~o.req.moduleOk THEN reject(500, <<"PKCS#11 module not found">>)
          ELSE IF o.req.pin = <<>> THEN reject(400, <<"USER PIN missing">>)
          ELSE IF keyId = <<>> THEN reject(400, <<"certificateId required">>)
          ELSE IF o.req.suppliedPem
          THEN /\ disk' = WriteFile(disk, suppliedPemPath(id), <<"signer", id>>)
               /\ ops' = [ops EXCEPT ![p] =
                            [o EXCEPT !.pc = "negotiate",
                                      !.certPem = suppliedPemPath(id),
                                      !.cleanup = <<suppliedPemPath(id)>>]]
          ELSE /\ disk' = disk
               /\ ops' = [ops EXCEPT ![p] = [o EXCEPT !.pc = "locate", !.li = 1]]
    /\ UNCHANGED <<env, log, certFile, sigFile, token, nextId, workload>>

\* Mutant: the label is tried before the id.
CertSelectors_LabelFirst == <<"--label", "--id">>

\* The selectors ensureSignerCertPem tries, in order.
CertSelectors == <<"--id", "--label">>

\* What pkcs11-tool --read-object did: its exit status and what it left at
\* --output-file.
ReadOutcomes == [ok : BOOLEAN, wrote : {"nothing", "empty", "data"}]

\* Mutant: the not-found return forgets the DER file.
NotFoundCleanup_Empty(d, id) == <<>>

\* The locator's cleanup list when no selector found the certificate.
NotFoundCleanup(d, id) ==
    IF tokenDerPath(id) \in DOMAIN d THEN <<tokenDerPath(id)>> ELSE <<>>

\* One pass of ensureSignerCertPem's selector loop; after the last selector
\* failed the locator returns its error and the handler answers 400.
SignLocate(p) ==
    /\ SignAt(p, "locate")
    /\ \E out \in ReadOutcomes :
        LET o   == ops[p]
            id  == o.rid
            der == tokenDerPath(id)
            d   == CASE out.wrote = "empty" -> WriteFile(disk, der, <<"empty", 0>>)
                     [] out.wrote = "data"  -> WriteFile(disk, der, <<"der", id>>)
                     [] OTHER -> disk
            found == out.ok /\ der \in DOMAIN d /\ d[der] # <<"empty", 0>>
            gaveUp == [o EXCEPT !.cleanup = NotFoundCleanup(d, id)]
        IN /\ log' = [log EXCEPT ![p] =
                        Append(@, Invocation("pkcs11-tool --read-object "
                                             \o CertSelectors[o.li], "none",
                                             <<>>, <<>>, found))]
           /\ IF found
              THEN /\ disk' = d
                   /\ ops' = [ops EXCEPT ![p] =
                                [o EXCEPT !.pc = "convert",
                                          !.cleanup = <<der, tokenPemPath(id)>>]]
              ELSE IF o.li < Len(CertSelectors)
              THEN /\ disk' = d
                   /\ ops' = [ops EXCEPT ![p] = [o EXCEPT !.li = o.li + 1]]
              ELSE /\ disk' = Finally(d, gaveUp)
                   /\ ops' = [ops EXCEPT ![p] =
                                Respond(gaveUp, 400, FALSE,
                                        <<"Signer certificate not found on token">>,
                                        "null")]
    /\ UNCHANGED <<env, certFile, sigFile, token, nextId, workload>>

\* openssl x509 -inform DER -> PEM; a failure is the locator's error and the
\* handler answers 400.
SignConvert(p) ==
    /\ SignAt(p, "convert")
    /\ \E out \in workload.tool :
        LET o  == ops[p]
            id == o.rid
            d  == AfterTool(disk, out, tokenPemPath(id), <<"signer", id>>)
        IN /\ log' = [log EXCEPT ![p] =
                        Append(@, Invocation("x509 -inform DER", "none",
                                             <<>>, <<>>, out.ok))]
           /\ IF out.ok
              THEN /\ disk' = d
                   /\ ops' = [ops EXCEPT ![p] =
                                [o EXCEPT !.pc = "negotiate",
                                          !.certPem = tokenPemPath(id)]]
              ELSE /\ disk' = Finally(d, o)
                   /\ ops' = [ops EXCEPT ![p] =
                                Respond(o, 400, FALSE,
                                        <<"openssl x509 failed (DER->PEM)">>, "null")]
    /\ UNCHANGED <<env, certFile, sigFile, token, nextId, workload>>

\* if (providerWanted) { prov = await ensurePkcs11Provider(...) ... }
SignProviderProbe(p) ==
    /\ SignAt(p, "negotiate")
    /\ providerWanted
    /\ \E shown \in ProviderProbeResults :
        LET o    == ops[p]
            prov == ensurePkcs11Provider(shown)
        IN /\ log' = [log EXCEPT ![p] =
                        Append(@, Invocation("list -providers", "provider",
                                             <<>>, <<>>, prov.ok))]
           /\ ops' = [ops EXCEPT ![p] =
                        IF prov.ok
                        THEN [o EXCEPT !.pc = "provCms", !.ui = 1]
                        ELSE [o EXCEPT !.pc = "engine",
                                       !.lastErr = <<"Provider preflight: ">>
                                                   \o prov.error]]
    /\ UNCHANGED <<env, disk, certFile, sigFile, token, nextId, workload>>

\* The SignatureRecord of a successful sign.
signRecord(o, usedMode) ==
    [id |-> o.rid, keyId |-> Trim(o.req.keyId), mode |-> usedMode,
     status |-> "valid", serial |-> <<>>, revocationDate |-> 0, reason |-> <<>>]

\* One pass of the provider loop: one `openssl cms -sign` with one URI.
SignProviderCms(p) ==
    /\ SignAt(p, "provCms")
    /\ LET o       == ops[p]
           id      == o.rid
           keyUris == pkcs11KeyUris(Trim(o.req.keyId), o.req.pin)
           uri     == keyUris[o.ui]
       IN \E out \in workload.keyTool, echo \in workload.echo :
        (out.ok => ~echo) /\
           /\ disk' = AfterTool(disk, out, outputPath(id), <<"p7", id>>)
           /\ log' = [log EXCEPT ![p] =
                        Append(@, Invocation("cms -sign", "provider", uri,
                                             <<>>, out.ok))]
           /\ ops' = [ops EXCEPT ![p] =
                        IF out.ok
                        THEN [o EXCEPT !.pc = "load", !.usedMode = "provider",
                                       !.record = signRecord(o, "provider")]
                        ELSE IF o.ui < Len(keyUris)
                        THEN [o EXCEPT !.ui = o.ui + 1]
                        ELSE [o EXCEPT !.pc = "engine",
                                !.lastErr = <<"OpenSSL cms sign failed (provider): ">>
                                            \o ToolStderr(echo, uri)]]
    /\ UNCHANGED <<env, certFile, sigFile, token, nextId, workload>>

\* if (!usedMode) { eng = await ensurePkcs11Engine(...) ... }
SignEngineProbe(p) ==
    /\ \/ SignAt(p, "engine")
       \/ SignAt(p, "negotiate") /\ ~providerWanted
    /\ \E hit \in 0..Len(EngineTryList) :
        LET o == ops[p]
        IN /\ log' = [log EXCEPT ![p] = @ \o EngineProbeLog(hit)]
           /\ ops' = [ops EXCEPT ![p] =
                        IF hit = 0
                        THEN Throw(o, <<"OpenSSL pkcs11 engine not available. ">>
                                      \o EngineMissing)
                        ELSE [o EXCEPT !.pc = "engCms", !.ui = 1]]
    /\ UNCHANGED <<env, disk, certFile, sigFile, token, nextId, workload>>

\* The arguments of one engine-mode `openssl cms -sign`: the key URI; the
\* route passes no -passin.
EngineCmsArgs(uri, userPin) == [key |-> uri, passin |-> <<>>]

\* One pass of the engine loop.
SignEngineCms(p) ==
    /\ SignAt(p, "engCms")
    /\ LET o       == ops[p]
           id      == o.rid
           keyUris == pkcs11KeyUris(Trim(o.req.keyId), o.req.pin)
           args    == EngineCmsArgs(keyUris[o.ui], o.req.pin)
       IN \E out \in workload.keyTool, echo \in workload.echo :
        (out.ok => ~echo) /\
           /\ disk' = AfterTool(disk, out, outputPath(id), <<"p7", id>>)
           /\ log' = [log EXCEPT ![p] =
                        Append(@, Invocation("cms -sign", "engine", args.key,
                                             args.passin, out.ok))]
           /\ ops' = [ops EXCEPT ![p] =
                        IF out.ok
                        THEN [o EXCEPT !.pc = "load", !.usedMode = "engine",
                                       !.record = signRecord(o, "engine")]
                        ELSE IF o.ui < Len(keyUris)
                        THEN [o EXCEPT !.ui = o.ui + 1]
                        ELSE Throw(o, ToolStderr(echo, args.key))]
    /\ UNCHANGED <<env, certFile, sigFile, token, nextId, workload>>

\* sigStore = await getSignStore(SIGS_JSON); sigStore.items.unshift(record)
SignLoadStore(p) ==
    /\ SignAt(p, "load")
    /\ LET o     == ops[p]
           store == getSignStore
       IN ops' = [ops EXCEPT ![p] =
                    [o EXCEPT !.pc = "persist",
                              !.store = [store EXCEPT
                                  !.records = <<o.record>> \o @]]]
    /\ UNCHANGED <<env, log, disk, certFile, sigFile, token, nextId, workload>>

\* await persistSignStore(SIGS_JSON, sigStore); res.json({ok:true,...});
\* finally
SignPersist(p) ==
    /\ SignAt(p, "persist")
    /\ LET o == ops[p]
       IN /\ sigFile' = persistStore(o.store)
          /\ disk' = Finally(disk, o)
          /\ ops' = [ops EXCEPT ![p] = Respond(o, 200, TRUE, <<>>, o.usedMode)]
    /\ UNCHANGED <<env, log, certFile, token, nextId, workload>>

\* catch (e): answer 500 with the message; finally
SignCatch(p) ==
    /\ SignAt(p, "catch")
    /\ LET o == ops[p]
       IN /\ disk' = Finally(disk, o)
          /\ ops' = [ops EXCEPT ![p] = Respond(o, 500, FALSE, o.lastErr, "null")]
    /\ UNCHANGED <<env, log, certFile, sigFile, token, nextId, workload>>

(***************************************************************************)
(* POST /api/pki/documents/verify.                                         *)
(***************************************************************************)
VerifyAt(p, pc) == ops[p].kind = "verify" /\ ops[p].pc = pc

\* pickFile(names): the path of the first named field that carries a file.
RECURSIVE pickFile(_, _, _)
pickFile(names, uploads, id) ==
    IF names = <<>> THEN NoFile
    ELSE IF names[1] \in uploads THEN multerPath(id, names[1])
    ELSE pickFile(Tail(names), uploads, id)

\* One `openssl cms` invocation of the verify route, with the files it names.
VerifyCall(cmd, o, stderr, won) ==
    [cmd |-> cmd, backend |-> "none", key |-> <<>>, passin |-> <<>>,
     won |-> won, in |-> o.cmsPath, content |-> o.contentPath,
     CAfile |-> o.caPath, stderr |-> stderr]

\* res.status(status).json({ ok, verified, error }); verified is "absent"
\* where the answer has no such member.
VerifyAnswer(o, status, ok, verified, error) ==
    [o EXCEPT !.pc = "done",
              !.resp = [status |-> status, ok |-> ok, error |-> error,
                        mode |-> "null", verified |-> verified]]

\* finally { for (const p of tempFiles) unlink(p) }
VerifyFinally(d, o) == UnlinkAll(d, o.tempFiles)

\* What openssl can leave on stderr: nothing, a text the handler's pattern
\* /S\/MIME|CMS|no content-type|asn1|invalid format/i matches, another text
\* (the only one the model lets a successful run print: the handler does not
\* read it).
NotCmsWords == {"S/MIME", "CMS", "no content-type", "asn1", "invalid format"}
VerifyStderrs == {<<>>, <<"asn1">>, Stderr}
NotCmsReason == <<"Provided file is not a CMS/PKCS#7 signature (.p7s/.p7m).">>

\* Mutant: the tool's stderr is the reason, whatever it holds.
verifyReason_RawStderr(verifyStderr) == verifyStderr

\* The reason of a failed verdict.
verifyReason(verifyStderr) ==
    IF \E i \in DOMAIN verifyStderr : verifyStderr[i] \in NotCmsWords
    THEN NotCmsReason
    ELSE IF verifyStderr # <<>> THEN verifyStderr
    ELSE <<"Verification failed">>

\* Picks the CMS, the detached content and the CA bundle, writing the body
\* fields to temp files.
VerifyBegin(p) ==
    /\ VerifyAt(p, "start")
    /\ LET o   == ops[p]
           id  == o.rid
           up  == o.req.uploads
           cmsUp == pickFile(<<"cms", "signature", "document", "file">>, up, id)
           cmsBody == cmsUp = NoFile /\ "cmsPem" \in o.req.body
           cms == IF cmsUp # NoFile THEN cmsUp
                  ELSE IF cmsBody THEN bodyCmsPath(id) ELSE NoFile
           contentUp == pickFile(<<"content", "data">>, up, id)
           contentBody == contentUp = NoFile /\ "contentText" \in o.req.body
           content == IF contentUp # NoFile THEN contentUp
                      ELSE IF contentBody THEN bodyContentPath(id) ELSE NoFile
           caUp == pickFile(<<"ca">>, up, id)
           caBody == caUp = NoFile /\ "caPem" \in o.req.body
           ca == IF caUp # NoFile THEN caUp
                 ELSE IF caBody THEN bodyCaPath(id) ELSE NoFile
           d1 == IF cmsBody THEN WriteFile(disk, cms, <<"cms", id>>) ELSE disk
           d2 == IF contentBody THEN WriteFile(d1, content, <<"content", id>>)
                 ELSE d1
           d3 == IF caBody THEN WriteFile(d2, ca, <<"ca", id>>) ELSE d2
           temp == (IF cmsBody THEN <<cms>> ELSE <<>>)
                   \o (IF contentBody THEN <<content>> ELSE <<>>)
                   \o (IF caBody THEN <<ca>> ELSE <<>>)
       IN IF cms = NoFile
          THEN /\ ops' = [ops EXCEPT ![p] =
                            VerifyAnswer(o, 400, FALSE, "absent",
                                         <<"Missing CMS/PKCS#7">>)]
               /\ disk' = VerifyFinally(disk, o)
          ELSE /\ ops' = [ops EXCEPT ![p] =
                            [o EXCEPT !.pc = "verify pem", !.cmsPath = cms,
                                      !.contentPath = content, !.caPath = ca,
                                      !.tempFiles = temp]]
               /\ disk' = d3
    /\ UNCHANGED <<env, log, certFile, sigFile, token, nextId, workload>>

\* openssl cms -verify -in <cms> ...: the PEM attempt.
VerifyPem(p) ==
    /\ VerifyAt(p, "verify pem")
    /\ \E ok \in BOOLEAN, stderr \in VerifyStderrs :
        (ok => stderr = Stderr) /\
        LET o == ops[p]
        IN /\ log' = [log EXCEPT ![p] =
                        Append(@, VerifyCall("cms -verify", o, stderr, ok))]
           /\ ops' = [ops EXCEPT ![p] =
                        [o EXCEPT !.pc = IF ok THEN "signer info"
                                         ELSE "verify der",
                                  !.verifyStderr = stderr]]
    /\ UNCHANGED <<env, disk, certFile, sigFile, token, nextId, workload>>

\* openssl cms -verify -inform DER -in <cms> ...: the DER attempt, and the
\* failed verdict.
VerifyDer(p) ==
    /\ VerifyAt(p, "verify der")
    /\ \E ok \in BOOLEAN, stderr \in VerifyStderrs :
        (ok => stderr = Stderr) /\
        LET o == ops[p]
            verifyStderr == IF stderr # <<>> THEN stderr ELSE o.verifyStderr
        IN /\ log' = [log EXCEPT ![p] =
                        Append(@, VerifyCall("cms -verify -inform DER", o,
                                             stderr, ok))]
           /\ IF ok
              THEN /\ ops' = [ops EXCEPT ![p] =
                                [o EXCEPT !.pc = "signer info",
                                          !.verifyStderr = verifyStderr]]
                   /\ disk' = disk
              ELSE /\ ops' = [ops EXCEPT ![p] =
                                VerifyAnswer(
                                    [o EXCEPT !.verifyStderr = verifyStderr],
                                    400, FALSE, "false",
                                    verifyReason(verifyStderr))]
                   /\ disk' = VerifyFinally(disk, o)
    /\ UNCHANGED <<env, certFile, sigFile, token, nextId, workload>>

\* openssl cms -cmsout -print, best effort (inside its own try/catch), and
\* the successful verdict.
VerifySignerInfo(p) ==
    /\ VerifyAt(p, "signer info")
    /\ \E printed \in {"ok", "failed", "threw"} :
        LET o == ops[p]
        IN /\ log' = [log EXCEPT ![p] =
                        Append(@, VerifyCall("cms -cmsout -print", o, <<>>,
                                             printed = "ok"))]
           /\ ops' = [ops EXCEPT ![p] =
                        VerifyAnswer(o, 200, TRUE, "true", <<>>)]
           /\ disk' = VerifyFinally(disk, o)
    /\ UNCHANGED <<env, certFile, sigFile, token, nextId, workload>>

(***************************************************************************)
(* The state machine.                                                      *)
(***************************************************************************)
Unset == <<>>
Envs ==
    { [OPENSSL_USE_ENGINE |-> Unset, PKCS11_TOKEN_LABEL |-> Unset,
       PKCS11_TOKEN |-> Unset, PKCS11_SLOT_ID |-> Unset,
       OPENSSL_ENGINE_SO |-> Unset],
      [OPENSSL_USE_ENGINE |-> <<"1">>, PKCS11_TOKEN_LABEL |-> Unset,
       PKCS11_TOKEN |-> Unset, PKCS11_SLOT_ID |-> Unset,
       OPENSSL_ENGINE_SO |-> Unset],
      [OPENSSL_USE_ENGINE |-> <<"0">>, PKCS11_TOKEN_LABEL |-> <<"My", " ", "HSM">>,
       PKCS11_TOKEN |-> <<"SC-HSM">>, PKCS11_SLOT_ID |-> <<"1">>,
       OPENSSL_ENGINE_SO |-> <<"/", "pkcs11.so">>],
      [OPENSSL_USE_ENGINE |-> <<"1">>, PKCS11_TOKEN_LABEL |-> <<"SC-HSM">>,
       PKCS11_TOKEN |-> Unset, PKCS11_SLOT_ID |-> <<"x">>,
       OPENSSL_ENGINE_SO |-> <<"/", "pkcs11.so">>] }

EmptyDisk == [n \in {} |-> <<>>]
MissingFile == [state |-> "missing", total |-> 0, records |-> <<>>]
EmptyStoreFile == [state |-> "json", total |-> 0, records |-> <<>>]
\* A store file whose write was cut short: fs.writeFile opens the file with
\* flag 'w' (truncate) and then writes; what is left does not parse.
PartialFile == [state |-> "partial", total |-> 0, records |-> <<>>]
\* A certificate store left by an earlier run of the server: one valid
\* certificate, id 0.
EarlierCertFile ==
    [state |-> "json", total |-> 1,
     records |-> << [id |-> 0, keyId |-> <<"0", "1">>, mode |-> "provider",
                     status |-> "valid", serial |-> <<"0", "1">>,
                     revocationDate |-> 0, reason |-> <<>>] >>]

\* The same store with a second, older certificate, id -1, that no request
\* of the model names.
EarlierTwoCertFile ==
    [state |-> "json", total |-> 2,
     records |-> EarlierCertFile.records \o
                 << [id |-> -1, keyId |-> <<"k">>, mode |-> "engine",
                     status |-> "valid", serial |-> genSerial,
                     revocationDate |-> 0, reason |-> <<>>] >>]

InitCommon ==
    /\ ops = [p \in Slots |-> Idle]
    /\ log = [p \in Slots |-> <<>>]
    /\ disk = EmptyDisk
    /\ sigFile = EmptyStoreFile
    /\ token = {}
    /\ nextId = 1

\* One request at a time, any request, any environment.
Init ==
    /\ InitCommon
    /\ env \in Envs
    /\ certFile = EarlierCertFile
    /\ workload = [slots |-> {1},
                   requests |-> DefaultRequests \cup VerifyRequests,
                   keyTool |-> ToolOutcomes, tool |-> ToolOutcomes,
                   meta |-> MetaOutcomes, serial |-> FALSE, echo |-> BOOLEAN]

\* Requests in every slot at once, well-formed requests, engine forced, a
\* token that answers the first key URI, tools that write what they report.
InitConc ==
    /\ InitCommon
    /\ env \in {e \in Envs : e.OPENSSL_USE_ENGINE = <<"1">>
                             /\ e.OPENSSL_ENGINE_SO = Unset}
    /\ certFile \in {MissingFile, EarlierCertFile}
    /\ workload = [slots |-> Slots, requests |-> ConcRequests,
                   keyTool |-> {[ok |-> TRUE, wrote |-> TRUE]},
                   tool |-> {[ok |-> TRUE, wrote |-> TRUE],
                             [ok |-> FALSE, wrote |-> FALSE]},
                   meta |-> MetaOutcomes, serial |-> FALSE, echo |-> {FALSE}]

\* One request after the other, well-formed requests with any validityDays
\* and any revoke reason, engine forced; the process may be killed while a
\* store file is being written, and is then restarted.
InitSeq ==
    /\ InitCommon
    /\ env \in {e \in Envs : e.OPENSSL_USE_ENGINE = <<"1">>
                             /\ e.OPENSSL_ENGINE_SO = Unset}
    /\ certFile = EarlierTwoCertFile
    /\ workload = [slots |-> Slots, requests |-> SeqRequests,
                   keyTool |-> {[ok |-> TRUE, wrote |-> TRUE]},
                   tool |-> {[ok |-> TRUE, wrote |-> TRUE]},
                   meta |-> {[ok |-> TRUE, fmt |-> "plain"]}, serial |-> TRUE, echo |-> {FALSE}]

Next ==
    \E p \in Slots :
        \/ Arrive(p)
        \/ IssueBegin(p)
        \/ IssueProviderProbe(p)
        \/ IssueProviderCsr(p)
        \/ IssueProviderX509(p)
        \/ IssueProviderDer(p)
        \/ IssueEngineProbe(p)
        \/ IssueEngineCsr(p)
        \/ IssueEngineX509(p)
        \/ IssueEngineDer(p)
        \/ IssuePersistSignerPem(p)
        \/ IssueImportToToken(p)
        \/ IssueReadMeta(p)
        \/ IssueLoadStore(p)
        \/ IssuePersist(p)
        \/ IssueCatch(p)
        \/ RevokeLoad(p)
        \/ RevokePersist(p)
        \/ SignBegin(p)
        \/ SignLocate(p)
        \/ SignConvert(p)
        \/ SignProviderProbe(p)
        \/ SignProviderCms(p)
        \/ SignEngineProbe(p)
        \/ SignEngineCms(p)
        \/ SignLoadStore(p)
        \/ SignPersist(p)
        \/ SignCatch(p)
        \/ VerifyBegin(p)
        \/ VerifyPem(p)
        \/ VerifyDer(p)
        \/ VerifySignerInfo(p)

\* The concurrent workload forces the engine: the provider steps never run.
NextConc ==
    \E p \in Slots :
        \/ Arrive(p)
        \/ IssueBegin(p)
        \/ IssueEngineProbe(p)
        \/ IssueEngineCsr(p)
        \/ IssueEngineX509(p)
        \/ IssueEngineDer(p)
        \/ IssuePersistSignerPem(p)
        \/ IssueReadMeta(p)
        \/ IssueLoadStore(p)
        \/ IssuePersist(p)
        \/ IssueCatch(p)
        \/ RevokeLoad(p)
        \/ RevokePersist(p)
        \/ SignBegin(p)
        \/ SignEngineProbe(p)
        \/ SignEngineCms(p)
        \/ SignLoadStore(p)
        \/ SignPersist(p)
        \/ SignCatch(p)

\* The process is killed while operation p's fs.writeFile(file, JSON) is in
\* progress: the file holds the old document (nothing written yet), a
\* truncated one, or the new one; every request in flight ends without an
\* answer.  On restart the signature store initialisation leaves an existing
\* file alone.
Crash(p) ==
    /\ ops[p].pc = "persist"
    /\ \E left \in {"old", "partial", "new"} :
        LET sign  == ops[p].kind = "sign"
            file  == IF sign THEN sigFile ELSE certFile
            after == CASE left = "old" -> file
                       [] left = "partial" -> PartialFile
                       [] OTHER -> persistStore(ops[p].store)
        IN /\ certFile' = IF sign THEN certFile ELSE after
           /\ sigFile' = IF sign THEN after ELSE sigFile
    /\ ops' = [q \in Slots |->
                 IF ops[q].pc \in {"idle", "done"} THEN ops[q]
                 ELSE [ops[q] EXCEPT !.pc = "crashed"]]
    /\ UNCHANGED <<env, log, disk, token, nextId, workload>>

NextSeq ==
    \/ NextConc
    \/ \E p \in Slots : Crash(p)

Spec == Init /\ [][Next]_vars
SpecSeq == InitSeq /\ [][NextSeq]_vars
SpecConc == InitConc /\ [][NextConc]_vars

(***************************************************************************)
(* Vocabulary of the properties.                                           *)
(***************************************************************************)
Crypto(p) == ops[p].kind \in {"issue", "sign"}

\* The invocations that address the hardware key by one candidate URI.
IsKeyAttempt(e) == e.cmd \in {"req", "cms -sign"}
KeyAttempts(L, backend) ==
    SelectSeq(L, LAMBDA e : IsKeyAttempt(e) /\ e.backend = backend)
Keys(L) == [i \in DOMAIN L |-> L[i].key]
IsPrefix(a, b) == Len(a) <= Len(b) /\ a = SubSeq(b, 1, Len(a))

\* Every candidate of a backend for one operation, over all token labels,
\* in the order the source lists them.
ProviderCandidates(o) ==
    IF o.kind = "issue"
    THEN Flatten([l \in DOMAIN tokenLabelCandidates |->
                    provUris(tokenLabelCandidates[l], Trim(o.req.keyId), o.req.pin)])
    ELSE pkcs11KeyUris(Trim(o.req.keyId), o.req.pin)
EngineCandidates(o) ==
    IF o.kind = "issue"
    THEN Flatten([l \in DOMAIN tokenLabelCandidates |->
                    engineKeyUris(Trim(o.req.keyId), tokenLabelCandidates[l])])
    ELSE pkcs11KeyUris(Trim(o.req.keyId), o.req.pin)

ProviderProbeWon(L) == \E i \in DOMAIN L : L[i].cmd = "list -providers" /\ L[i].won
ProviderProbeLost(L) == \E i \in DOMAIN L : L[i].cmd = "list -providers" /\ ~L[i].won
EngineProbeWon(L) == \E i \in DOMAIN L : L[i].backend = "engine" /\ L[i].key = <<>> /\ L[i].won

\* Every provider candidate was tried before position i and none produced
\* its artifact.
ProviderExhaustedBefore(p, i) ==
    LET tried == KeyAttempts(SubSeq(log[p], 1, i - 1), "provider")
    IN /\ Keys(tried) = ProviderCandidates(ops[p])
       /\ \A k \in DOMAIN tried : ~tried[k].won

(***************************************************************************)
(* C1: provider first unless the engine is forced.  In issuance and in     *)
(* signing, with OPENSSL_USE_ENGINE other than '1', the first invocation   *)
(* that touches a backend is the provider probe, and an engine probe or    *)
(* engine-backed invocation comes only after the provider probe failed or  *)
(* after every provider candidate failed; with OPENSSL_USE_ENGINE = '1'    *)
(* no provider probe and no provider-backed invocation is made.            *)
(***************************************************************************)
C1_ProviderFirst ==
    \A p \in Slots : Crypto(p) =>
        LET L == log[p]
            candidates == ProviderCandidates(ops[p])
            exhaustedBefore(i) ==
                LET tried == KeyAttempts(SubSeq(L, 1, i - 1), "provider")
                IN /\ Keys(tried) = candidates
                   /\ \A k \in DOMAIN tried : ~tried[k].won
        IN IF env.OPENSSL_USE_ENGINE = <<"1">>
           THEN \A i \in DOMAIN L : L[i].backend # "provider"
           ELSE /\ \A i \in DOMAIN L :
                     (/\ L[i].backend # "none"
                      /\ \A j \in 1..(i - 1) : L[j].backend = "none")
                     => L[i].cmd = "list -providers"
                /\ \A i \in DOMAIN L : L[i].backend = "engine" =>
                     \/ \E j \in 1..(i - 1) :
                           L[j].cmd = "list -providers" /\ ~L[j].won
                     \/ exhaustedBefore(i)

\* An issuance whose provider probe succeeded, whose provider candidates all
\* failed, and which then made an engine CSR attempt.
C1_Witness ==
    \E p \in Slots :
        /\ ops[p].kind = "issue"
        /\ ProviderProbeWon(log[p])
        /\ \E i \in DOMAIN log[p] :
              log[p][i].backend = "engine" /\ log[p][i].cmd = "req"

(***************************************************************************)
(* C2: in issuance no key URI handed to an engine-backed invocation (CSR   *)
(* generation, self-sign) has a pin-value attribute; the PIN travels in    *)
(* the -passin credential.                                                 *)
(***************************************************************************)
C2_EngineUriWithoutPin ==
    \A p \in Slots : ops[p].kind = "issue" =>
        \A i \in DOMAIN log[p] :
            LET e == log[p][i]
            IN (e.backend = "engine" /\ e.key # <<>>) =>
                  /\ ~HasPinValue(e.key)
                  /\ e.passin = <<"pass:">> \o ops[p].req.pin

\* An issuance that self-signed through the engine.
C2_Witness ==
    \E p \in Slots :
        /\ ops[p].kind = "issue"
        /\ \E i \in DOMAIN log[p] :
              /\ log[p][i].backend = "engine"
              /\ log[p][i].cmd = "x509 -req"
              /\ log[p][i].won

(***************************************************************************)
(* C3: in signing no engine-backed `cms -sign` invocation receives a key   *)
(* URI with a pin-value attribute.                                         *)
(***************************************************************************)
C3_SignEngineUriWithoutPin ==
    \A p \in Slots : ops[p].kind = "sign" =>
        \A i \in DOMAIN log[p] :
            LET e == log[p][i]
            IN (e.backend = "engine" /\ e.cmd = "cms -sign") => ~HasPinValue(e.key)

(***************************************************************************)
(* C4: candidates in list order, stopping at the first success.  The key   *)
(* URIs tried with each backend are a prefix of that backend's candidate   *)
(* list, and once a candidate produced its artifact (CSR, CMS signature)   *)
(* no other candidate of either backend is tried in the operation.         *)
(***************************************************************************)
C4_InOrderStopAtFirstSuccess ==
    \A p \in Slots : Crypto(p) =>
        LET L == log[p]
        IN /\ IsPrefix(Keys(KeyAttempts(L, "provider")), ProviderCandidates(ops[p]))
           /\ IsPrefix(Keys(KeyAttempts(L, "engine")), EngineCandidates(ops[p]))
           /\ \A i \in DOMAIN L : (IsKeyAttempt(L[i]) /\ L[i].won) =>
                 \A j \in (i + 1)..Len(L) : ~IsKeyAttempt(L[j])

\* An issuance whose third provider candidate produced the CSR and which
\* went on to self-sign.
C4_Witness ==
    \E p \in Slots :
        /\ ops[p].kind = "issue"
        /\ Len(KeyAttempts(log[p], "provider")) = 3
        /\ \E i \in DOMAIN log[p] : log[p][i].cmd = "x509 -req"

(***************************************************************************)
(* C5: an issuance answers with an error only after every candidate of     *)
(* every backend whose probe succeeded has been tried.                     *)
(***************************************************************************)
C5_FailureOnlyAfterExhaustion ==
    \A p \in Slots :
        (ops[p].kind = "issue" /\ ops[p].pc = "done" /\ ~ops[p].resp.ok) =>
            LET L == log[p]
            IN /\ ProviderProbeWon(L) =>
                    Keys(KeyAttempts(L, "provider")) = ProviderCandidates(ops[p])
               /\ EngineProbeWon(L) =>
                    Keys(KeyAttempts(L, "engine")) = EngineCandidates(ops[p])

(***************************************************************************)
(* C6: a persisted record's mode is the backend that produced the          *)
(* artifact.  Every record an operation persisted has mode provider or     *)
(* engine, and the invocation of that operation that produced the          *)
(* certificate (self-sign) or the signature (cms -sign) ran on that        *)
(* backend.                                                                *)
(***************************************************************************)
Produced(e) == e.cmd \in {"x509 -req", "cms -sign"} /\ e.won

C6_ModeIsProducingBackend ==
    \A file \in {certFile, sigFile} :
        \A k \in DOMAIN file.records :
            LET r == file.records[k]
            IN r.id > 0 =>
                /\ r.mode \in {"provider", "engine"}
                /\ \E p \in Slots :
                     /\ ops[p].rid = r.id
                     /\ \E i \in DOMAIN log[p] :
                           Produced(log[p][i]) /\ log[p][i].backend = r.mode
                     /\ \A i \in DOMAIN log[p] :
                           Produced(log[p][i]) => log[p][i].backend = r.mode

\* A certificate record persisted by an issuance that fell back to the
\* engine after the provider candidates failed.
C6_Witness ==
    \E k \in DOMAIN certFile.records :
        /\ certFile.records[k].id > 0
        /\ certFile.records[k].mode = "engine"
        /\ \E p \in Slots :
              ops[p].rid = certFile.records[k].id /\ ProviderProbeWon(log[p])

(***************************************************************************)
(* C7: after an issuance returned, with success or with an error, neither  *)
(* its CSR file nor its extension-config file is on disk.                  *)
(***************************************************************************)
C7_NoTransientFilesAfterIssue ==
    \A p \in Slots :
        (ops[p].kind = "issue" /\ ops[p].pc = "done") =>
            /\ ~Exists(tmpCsr(ops[p].rid))
            /\ ~Exists(extFile(ops[p].rid))

(***************************************************************************)
(* C8: the sign route leaves no temp file.  After a sign operation ended,  *)
(* on any path, the uploaded document and the locator's files (supplied    *)
(* PEM, token DER, converted PEM) are gone; and once the locator has       *)
(* returned, every file of its that is on disk is in the cleanup list.     *)
(***************************************************************************)
LocatorFiles(id) == {suppliedPemPath(id), tokenDerPath(id), tokenPemPath(id)}

C8_SignTempFilesDeleted ==
    \A p \in Slots : ops[p].kind = "sign" =>
        LET id == ops[p].rid
        IN /\ ops[p].pc = "done" =>
                \A f \in LocatorFiles(id) \cup {uploadPath(id)} : ~Exists(f)
           /\ ops[p].pc \notin {"start", "locate", "convert", "done"} =>
                \A f \in LocatorFiles(id) :
                    Exists(f) => f \in Range(ops[p].cleanup)

\* A sign that read the signer certificate from the token, converted it,
\* signed and answered ok.
C8_Witness ==
    \E p \in Slots :
        /\ ops[p].kind = "sign" /\ ops[p].pc = "done" /\ ops[p].resp.ok
        /\ ops[p].certPem = tokenPemPath(ops[p].rid)

(***************************************************************************)
(* C9: in both store files, whatever the interleaving of issuance, sign    *)
(* and revoke, the stored total is the number of stored records.           *)
(***************************************************************************)
C9_TotalIsCount ==
    /\ certFile.total = Len(certFile.records)
    /\ sigFile.total = Len(sigFile.records)

\* An issuance and a revoke whose load-to-persist spans overlapped have
\* both written the certificate store.
C9_Witness ==
    \E p, q \in Slots :
        /\ ops[p].kind = "issue" /\ ops[p].pc = "done" /\ ops[p].resp.ok
        /\ ops[q].kind = "revoke" /\ ops[q].pc = "done" /\ ops[q].resp.ok
        /\ Len(ops[p].store.records) = Len(ops[q].store.records) + 1
        /\ certFile.total = Len(certFile.records)

(***************************************************************************)
(* C10: writers of a store file are serialized: no two operations are      *)
(* between their load and their persist of the same file at once.          *)
(***************************************************************************)
StoreOf(p) == IF ops[p].kind = "sign" THEN "signatures" ELSE "certificates"
InWriteSection(p) == ops[p].pc = "persist"

C10_WritersSerialized ==
    \A p, q \in Slots :
        (p # q /\ InWriteSection(p) /\ InWriteSection(q)) =>
            StoreOf(p) # StoreOf(q)

(***************************************************************************)
(* C11: a persisted CertificateRecord stays in the store, and only its     *)
(* status, revocationDate and revocationReason ever change, by a revoke.   *)
(* Every issuance that answered ok has its record in the certificate       *)
(* store with the identity fields it was created with, and a stored        *)
(* record is revoked only if a revoke of its id has loaded the store.      *)
(***************************************************************************)
Immutable(r) == [id |-> r.id, keyId |-> r.keyId, mode |-> r.mode, serial |-> r.serial]

C11_CertRecordKeptAndOnlyRevoked ==
    /\ \A p \in Slots :
          (ops[p].kind = "issue" /\ ops[p].pc = "done" /\ ops[p].resp.ok) =>
              \E k \in DOMAIN certFile.records :
                  Immutable(certFile.records[k]) = Immutable(ops[p].record)
    /\ \A k \in DOMAIN certFile.records :
          certFile.records[k].status # "valid" =>
              /\ certFile.records[k].status = "revoked"
              /\ \E q \in Slots :
                    /\ ops[q].kind = "revoke"
                    /\ ops[q].req.certId = certFile.records[k].id
                    /\ ops[q].pc = "done" /\ ops[q].resp.ok

(***************************************************************************)
(* C12: every sign that answered ok has exactly one SignatureRecord of     *)
(* its own id in the signature store, equal to the record it created,      *)
(* also when sign operations overlap.                                      *)
(***************************************************************************)
C12_SignatureRecordKept ==
    \A p \in Slots :
        (ops[p].kind = "sign" /\ ops[p].pc = "done" /\ ops[p].resp.ok) =>
            /\ Cardinality({k \in DOMAIN sigFile.records :
                              sigFile.records[k].id = ops[p].rid}) = 1
            /\ \E k \in DOMAIN sigFile.records :
                  sigFile.records[k] = ops[p].record

(***************************************************************************)
(* C13: revoking an already-revoked certificate again answers ok with the  *)
(* certificate still revoked, and the store keeps the same records: the    *)
(* write of such a revoke leaves the number of records and every record's  *)
(* identity as they were, and the certificate's status revoked.            *)
(***************************************************************************)
RevokeWrites(q) ==
    ops[q].kind = "revoke" /\ ops[q].pc = "persist" /\ ops'[q].pc = "done"

C13_RevokeTwiceSameState ==
    [][\A q \in Slots :
          LET idx == findIndex(certFile.records, ops[q].req.certId)
          IN (/\ RevokeWrites(q)
              /\ idx # 0
              /\ certFile.records[idx].status = "revoked") =>
                 /\ ops'[q].resp.ok
                 /\ Len(certFile'.records) = Len(certFile.records)
                 /\ certFile'.records[idx].status = "revoked"
                 /\ \A k \in DOMAIN certFile.records :
                       Immutable(certFile'.records[k]) =
                           Immutable(certFile.records[k])]_vars

\* Two revokes of the same certificate have answered ok, one after the
\* other, and the store holds the second one's stamp.
C13_Witness ==
    \E p, q \in Slots :
        /\ p < q
        /\ ops[p].kind = "revoke" /\ ops[p].pc = "done" /\ ops[p].resp.ok
        /\ ops[q].kind = "revoke" /\ ops[q].pc = "done" /\ ops[q].resp.ok
        /\ ops[p].req.certId = ops[q].req.certId
        /\ \E k \in DOMAIN certFile.records :
              /\ certFile.records[k].id = ops[q].req.certId
              /\ certFile.records[k].status = "revoked"
              /\ certFile.records[k].revocationDate = ops[q].rid

(***************************************************************************)
(* C14: a revoke of an id the store does not hold answers 404 and writes   *)
(* nothing; a revoke of an id it holds writes the store with that record   *)
(* revoked, stamped with the time and with the caller's reason             *)
(* ("unspecified" when none is given), every other record as it was.       *)
(***************************************************************************)
C14_RevokeNotFoundOrStamped ==
    [][\A q \in Slots :
          LET r     == ops[q].req
              recs  == getCertStore.records
              found == \E k \in DOMAIN recs : recs[k].id = r.certId
          IN /\ (ops[q].kind = "revoke" /\ ops[q].pc = "start"
                   /\ ops'[q] # ops[q]) =>
                    /\ certFile' = certFile
                    /\ IF found
                       THEN ops'[q].pc = "persist"
                       ELSE /\ ops'[q].pc = "done"
                            /\ ops'[q].resp.status = 404
                            /\ ~ops'[q].resp.ok
             /\ RevokeWrites(q) =>
                    /\ found
                    /\ ops'[q].resp.ok
                    /\ certFile'.state = "json"
                    /\ certFile'.records =
                          [k \in DOMAIN recs |->
                              IF recs[k].id = r.certId
                              THEN [recs[k] EXCEPT
                                      !.status = "revoked",
                                      !.revocationDate = ops[q].rid,
                                      !.reason = IF r.reason = <<>>
                                                 THEN <<"unspecified">>
                                                 ELSE r.reason]
                              ELSE recs[k]]]_vars

\* A revoke without a reason has revoked one of two stored certificates, and
\* a revoke of an unknown id was answered 404.
C14_Witness ==
    /\ Len(certFile.records) = 2
    /\ \E k \in DOMAIN certFile.records :
          /\ certFile.records[k].status = "revoked"
          /\ certFile.records[k].reason = <<"unspecified">>
          /\ certFile.records[k].revocationDate > 0
    /\ \E k \in DOMAIN certFile.records : certFile.records[k].status = "valid"
    /\ \E q \in Slots :
          ops[q].kind = "revoke" /\ ops[q].pc = "done" /\ ops[q].resp.status = 404

(***************************************************************************)
(* C15: the store fails closed on a file that does not parse: no           *)
(* operation goes on to write a store file whose current content it could  *)
(* not parse (it would write a collection built from the empty fallback    *)
(* over the stored records).                                               *)
(***************************************************************************)
FileOf(p) == IF ops[p].kind = "sign" THEN sigFile ELSE certFile

C15_FailClosedOnUnparseableStore ==
    \A p \in Slots :
        ops[p].pc = "persist" => FileOf(p).state # "partial"

(***************************************************************************)
(* C16: both store files hold a complete JSON document at every moment,    *)
(* also when the process is killed during a write.                         *)
(***************************************************************************)
C16_StoreFilesAlwaysParse ==
    /\ certFile.state # "partial"
    /\ sigFile.state # "partial"

(***************************************************************************)
(* C17: for keyId "01" the provider key URIs of one operation are tried    *)
(* hex-encoded id (id=%01) first, ASCII-encoded id (id=%30%31) next,       *)
(* object/label last, over the whole sequence of attempts of all token     *)
(* labels.                                                                 *)
(***************************************************************************)
HasAtom(uri, a) == \E i \in DOMAIN uri : uri[i] = a
IdValueIs(uri, enc) ==
    \E i \in DOMAIN uri :
        /\ uri[i] = "id="
        /\ i + Len(enc) <= Len(uri)
        /\ SubSeq(uri, i + 1, i + Len(enc)) = enc
UriRank(uri) ==
    IF HasAtom(uri, "object=") THEN 3
    ELSE IF IdValueIs(uri, <<"%30", "%31">>) THEN 2
    ELSE IF IdValueIs(uri, <<"%01">>) THEN 1
    ELSE 0

C17_HexThenAsciiThenObject ==
    \A p \in Slots :
        (Crypto(p) /\ Trim(ops[p].req.keyId) = <<"0", "1">>) =>
            LET tried == Keys(KeyAttempts(log[p], "provider"))
            IN /\ \A i \in DOMAIN tried : UriRank(tried[i]) \in {1, 2, 3}
               /\ \A i, j \in DOMAIN tried :
                     i < j => UriRank(tried[i]) <= UriRank(tried[j])

(***************************************************************************)
(* C18: within one operation no key URI is tried twice with the same       *)
(* backend, over all token labels.                                         *)
(***************************************************************************)
C18_NoLocatorTriedTwice ==
    \A p \in Slots : Crypto(p) =>
        \A backend \in {"provider", "engine"} :
            LET tried == Keys(KeyAttempts(log[p], backend))
            IN \A i, j \in DOMAIN tried : i < j => tried[i] # tried[j]

(***************************************************************************)
(* C19: with an empty keyId or no PIN, issuance and signing end at the     *)
(* validation: no tool is invoked, the operation answers an error, 400     *)
(* when the checks before the validation passed (module found, document    *)
(* uploaded), no file of the core is on disk, the uploaded document is     *)
(* gone once the answer is out, and neither store file is written.         *)
(***************************************************************************)
Blank(s) == \A i \in DOMAIN s : s[i] = " "

C19_FailFastOnMissingInput ==
    \A p \in Slots :
        (Crypto(p) /\ (Blank(ops[p].req.keyId) \/ ops[p].req.pin = <<>>)) =>
            LET o == ops[p]
            IN /\ log[p] = <<>>
               /\ o.pc \in {"start", "done"}
               /\ DOMAIN disk \subseteq {uploadPath(o.rid)}
               /\ o.pc = "done" =>
                     /\ ~o.resp.ok
                     /\ (o.req.moduleOk /\ (o.kind = "sign" => o.req.hasFile))
                           => o.resp.status = 400
                     /\ DOMAIN disk = {}
               /\ certFile = EarlierCertFile
               /\ sigFile = EmptyStoreFile

\* A sign request with a document, a PIN and a blank key id was answered 400.
C19_Witness ==
    \E p \in Slots :
        /\ ops[p].kind = "sign" /\ ops[p].pc = "done"
        /\ ops[p].req.hasFile /\ ops[p].req.moduleOk
        /\ ops[p].req.pin # <<>> /\ ops[p].req.keyId = <<" ">>
        /\ ops[p].resp.status = 400

(***************************************************************************)
(* C20: the -days value of every self-sign invocation is the request's     *)
(* validityDays when that parses to a positive number, and 365 otherwise   *)
(* (unset, zero, negative, not a number).                                  *)
(***************************************************************************)
C20_ValidityDaysPositiveOrDefault ==
    \A p \in Slots : ops[p].kind = "issue" =>
        \A i \in DOMAIN log[p] :
            log[p][i].cmd = "x509 -req" =>
                LET v == ops[p].req.validityDays
                    n == Number(v)
                IN log[p][i].days =
                      IF n.t = "number" /\ n.n > 0 THEN n ELSE JsNumber(365)

(***************************************************************************)
(* C21: when the provider probe failed and the engine then failed too      *)
(* (its probe, or every engine candidate), the error answered by issuance  *)
(* and by signing holds the provider probe's failure reason as well as     *)
(* the engine's.                                                           *)
(***************************************************************************)
Contains(msg, part) ==
    /\ part # <<>>
    /\ \E i \in 1..(Len(msg) - Len(part) + 1) :
          SubSeq(msg, i, i + Len(part) - 1) = part

ProviderProbeReasons ==
    {ensurePkcs11Provider(shown).error : shown \in ProviderProbeResults} \ {<<>>}

C21_CombinedDiagnostic ==
    \A p \in Slots :
        (/\ Crypto(p) /\ ops[p].pc = "done" /\ ~ops[p].resp.ok
         /\ ProviderProbeLost(log[p])
         /\ \E i \in DOMAIN log[p] : log[p][i].backend = "engine") =>
            /\ \E reason \in ProviderProbeReasons :
                  Contains(ops[p].resp.error, reason)
            /\ \/ Contains(ops[p].resp.error, EngineMissing)
               \/ Contains(ops[p].resp.error, Stderr)
                \/ \E i \in DOMAIN log[p] :
                      /\ log[p][i].backend = "engine"
                      /\ Contains(ops[p].resp.error,
                                  ToolStderr(TRUE, log[p][i].key))

ReadById == "pkcs11-tool --read-object --id"
ReadByLabel == "pkcs11-tool --read-object --label"
TokenReads(L) == SelectSeq(L, LAMBDA e : e.cmd \in {ReadById, ReadByLabel})
Conversions(L) == SelectSeq(L, LAMBDA e : e.cmd = "x509 -inform DER")
NotFoundOnToken == <<"Signer certificate not found on token">>

C22_LocatorOrder ==
    \A p \in Slots : ops[p].kind = "sign" =>
        LET o == ops[p]
            R == TokenReads(log[p])
            C == Conversions(log[p])
            located == o.pc \notin {"start", "locate", "convert", "done"}
        IN /\ o.req.suppliedPem =>
                 /\ R = <<>> /\ C = <<>>
                 /\ located => o.certPem = suppliedPemPath(o.rid)
           /\ IsPrefix([i \in DOMAIN R |-> R[i].cmd], <<ReadById, ReadByLabel>>)
           /\ \A i \in DOMAIN R : R[i].won => i = Len(R)
           /\ Len(C) <= 1
           /\ C # <<>> => (R # <<>> /\ R[Len(R)].won)
           /\ (R # <<>> /\ R[Len(R)].won /\ o.pc # "convert") => C # <<>>
           /\ (located /\ ~o.req.suppliedPem) =>
                 (C # <<>> /\ C[1].won /\ o.certPem = tokenPemPath(o.rid))
           /\ (o.pc = "done" /\ o.resp.error = NotFoundOnToken)
                 <=> (Len(R) = 2 /\ ~R[1].won /\ ~R[2].won)

\* The read by id yielded nothing, the read by label yielded the
\* certificate, and it was converted.
C22_Witness ==
    \E p \in Slots :
        LET R == TokenReads(log[p])
        IN /\ ops[p].kind = "sign"
           /\ Len(R) = 2 /\ ~R[1].won /\ R[2].won /\ R[2].cmd = ReadByLabel
           /\ Conversions(log[p]) # <<>>
           /\ ops[p].certPem = tokenPemPath(ops[p].rid)

(***************************************************************************)
(* C23: the verify route tries the PEM reading of the CMS first and the    *)
(* DER reading only after the PEM attempt failed; its verdict is           *)
(* verified=true exactly when one of the two attempts succeeded; a failed  *)
(* verdict carries a non-empty reason; and whatever the signer-info dump   *)
(* does, a verification that succeeded is answered 200 with verified=true. *)
(***************************************************************************)
VerifyAttempts(L) ==
    SelectSeq(L, LAMBDA e : e.cmd \in {"cms -verify", "cms -verify -inform DER"})
SignerInfoDumps(L) == SelectSeq(L, LAMBDA e : e.cmd = "cms -cmsout -print")

C23_PemThenDerVerdict ==
    \A p \in Slots : ops[p].kind = "verify" =>
        LET o == ops[p]
            A == VerifyAttempts(log[p])
            D == SignerInfoDumps(log[p])
            succeeded == \E i \in DOMAIN A : A[i].won
        IN /\ IsPrefix([i \in DOMAIN A |-> A[i].cmd],
                       <<"cms -verify", "cms -verify -inform DER">>)
           /\ Len(A) = 2 => ~A[1].won
           /\ (Len(A) = 1 /\ ~A[1].won) => o.pc = "verify der"
           /\ D # <<>> => (succeeded /\ o.pc = "done")
           /\ o.pc = "done" =>
                 /\ (o.resp.verified = "true") <=> succeeded
                 /\ o.resp.verified = "true" =>
                       (o.resp.ok /\ o.resp.status = 200 /\ D # <<>>)
                 /\ o.resp.verified = "false" =>
                       (~o.resp.ok /\ Len(A) = 2 /\ o.resp.error # <<>>)
                 /\ o.resp.verified = "absent" => (A = <<>> /\ ~o.resp.ok)

\* The PEM attempt failed, the DER attempt succeeded, the signer-info dump
\* failed, and the answer is verified=true.
C23_Witness ==
    \E p \in Slots :
        LET A == VerifyAttempts(log[p])
            D == SignerInfoDumps(log[p])
        IN /\ ops[p].kind = "verify" /\ ops[p].pc = "done"
           /\ Len(A) = 2 /\ ~A[1].won /\ A[2].won
           /\ D # <<>> /\ ~D[1].won
           /\ ops[p].resp.verified = "true"

(***************************************************************************)
(* C30: once a verify operation has answered, no file of that request is   *)
(* left in the uploads directory, neither one it wrote from a body field   *)
(* nor one multer stored for an uploaded field, and both record stores     *)
(* are as they were.                                                       *)
(***************************************************************************)
FilesOf(id) == {f \in DOMAIN disk : f.id = id /\ f.kind # "signer"}

C30_VerifyLeavesNothing ==
    \A p \in Slots :
        (ops[p].kind = "verify" /\ ops[p].pc = "done") =>
            /\ FilesOf(ops[p].rid) = {}
            /\ certFile = EarlierCertFile
            /\ sigFile = EmptyStoreFile

(***************************************************************************)
(* C25: for an issuance or a sign invoked with a PIN, the PIN value is in  *)
(* no error message answered to the caller (the same text is what the      *)
(* handler hands to addAudit and logPKI), and in no record of either       *)
(* store.                                                                  *)
(***************************************************************************)
PinInRecords(pin) ==
    \E r \in Range(certFile.records) \cup Range(sigFile.records) :
        Contains(r.keyId, pin) \/ Contains(r.reason, pin)

C25_PinNeverDisclosed ==
    \A p \in Slots :
        (Crypto(p) /\ ops[p].req.pin # <<>>) =>
            /\ ops[p].pc = "done" => ~Contains(ops[p].resp.error, ops[p].req.pin)
            /\ ~PinInRecords(ops[p].req.pin)

(***************************************************************************)
(* C26: the record a successful issuance persists carries the serial of    *)
(* the certificate that was produced whenever the metadata read printed    *)
(* it, in whichever of the accepted notations, and the random serial only  *)
(* when the metadata read printed none; nothing of the request decides it. *)
(***************************************************************************)
MetaReads(L) == SelectSeq(L, LAMBDA e : e.cmd = "x509 -noout -serial")

C26_SerialIsTheCertificates ==
    \A p \in Slots :
        (ops[p].kind = "issue" /\ ops[p].pc = "done" /\ ops[p].resp.ok) =>
            LET M == MetaReads(log[p])
            IN /\ Len(M) = 1 /\ M[1].won
               /\ \A k \in DOMAIN certFile.records :
                     certFile.records[k].id = ops[p].rid =>
                        certFile.records[k].serial =
                            IF M[1].printed # <<>> THEN M[1].printed
                            ELSE <<"<16 random hex digits>">>

\* An issuance answered ok and its stored record carries the certificate's
\* serial.
C26_Witness ==
    \E p \in Slots :
        /\ ops[p].kind = "issue" /\ ops[p].pc = "done" /\ ops[p].resp.ok
        /\ \E k \in DOMAIN certFile.records :
              /\ certFile.records[k].id = ops[p].rid
              /\ certFile.records[k].serial = <<"0", "A">>

(***************************************************************************)
(* C27: an issuance reaches the append to the certificate store, and a     *)
(* certificate record is in the store, only after its CSR generation, its  *)
(* self-sign, its DER conversion and its metadata read all succeeded; a    *)
(* sign reaches the append, and a signature record is stored, only after   *)
(* one of its cms-sign invocations succeeded; and an issuance or sign that *)
(* answered with an error has left both stores as they were.               *)
(***************************************************************************)
Succeeded(L, cmd) == \E i \in DOMAIN L : L[i].cmd = cmd /\ L[i].won
IssueSteps == {"req", "x509 -req", "x509 -outform DER", "x509 -noout -serial"}
Appending(o) == o.pc \in {"load", "persist"} \/ (o.pc = "done" /\ o.resp.ok)

C27_RecordOnlyAfterSuccess ==
    /\ \A p \in Slots :
          /\ (ops[p].kind = "issue" /\ Appending(ops[p])) =>
                \A cmd \in IssueSteps : Succeeded(log[p], cmd)
          /\ (ops[p].kind = "sign" /\ Appending(ops[p])) =>
                Succeeded(log[p], "cms -sign")
          /\ (Crypto(p) /\ ops[p].pc = "done" /\ ~ops[p].resp.ok) =>
                (certFile = EarlierCertFile /\ sigFile = EmptyStoreFile)
    /\ \A k \in DOMAIN certFile.records :
          certFile.records[k].id > 0 =>
             \E p \in Slots :
                /\ ops[p].kind = "issue" /\ ops[p].rid = certFile.records[k].id
                /\ \A cmd \in IssueSteps : Succeeded(log[p], cmd)
    /\ \A k \in DOMAIN sigFile.records :
          \E p \in Slots :
             /\ ops[p].kind = "sign" /\ ops[p].rid = sigFile.records[k].id
             /\ Succeeded(log[p], "cms -sign")

\* An issuance answered with an error after its certificate had been
\* produced: the metadata read failed.
C27_Witness ==
    \E p \in Slots :
        /\ ops[p].kind = "issue" /\ ops[p].pc = "done" /\ ~ops[p].resp.ok
        /\ Succeeded(log[p], "x509 -outform DER")
        /\ \E i \in DOMAIN log[p] :
              log[p][i].cmd = "x509 -noout -serial" /\ ~log[p][i].won
        /\ certFile = EarlierCertFile

(***************************************************************************)
(* C28: an issuance that answered with an error has not written the        *)
(* stable signer PEM of its key id (no earlier issuance of the run wrote   *)
(* one, so the file is absent) and has put no certificate on the token.    *)
(***************************************************************************)
C28_FailedIssuanceLeavesSignerAndToken ==
    \A p \in Slots :
        (ops[p].kind = "issue" /\ ops[p].pc = "done" /\ ~ops[p].resp.ok) =>
            /\ ~Exists(signerPem(Trim(ops[p].req.keyId)))
            /\ \A t \in token : t.cert # ops[p].rid

(***************************************************************************)
(* C29: once a revoke of a certificate has answered ok, the store holds    *)
(* that certificate with status 'revoked' and its revocation stamp in      *)
(* every later state, whatever the operations running beside it do.        *)
(***************************************************************************)
C29_RevokedStaysRevoked ==
    \A p \in Slots :
        (ops[p].kind = "revoke" /\ ops[p].pc = "done" /\ ops[p].resp.ok) =>
            \E k \in DOMAIN certFile.records :
                /\ certFile.records[k].id = ops[p].req.certId
                /\ certFile.records[k].status = "revoked"
                /\ certFile.records[k].revocationDate # 0

====
